---- MODULE Spec2Model ----
(***************************************************************************)
(* A model of monotrail-resolve's pypi_types crate: the version-range      *)
(* engine (version_intersection.rs), the normalisation of marker atoms     *)
(* (normalized_marker_expression.rs) and the DNF based disjointness of     *)
(* marker trees (marker_intersection.rs).                                  *)
(*                                                                         *)
(* The crate is a library of pure functions.  A state of the model is one  *)
(* call: the function called (fn), its arguments (args, a record with the  *)
(* source's parameter names), its return value (ret), what the reporter    *)
(* callback received during the call (warnings) and the position of the    *)
(* call (pc: "call" before, "return" after).  Every function has one       *)
(* action that applies it to its arguments; every specification draws the  *)
(* arguments of its functions from bounded sets.                           *)
(***************************************************************************)
EXTENDS Integers, Sequences, FiniteSets, TLC

VARIABLES pc, fn, args, ret, warnings

vars == <<pc, fn, args, ret, warnings>>

\* The value of ret before the call returns.
NoReturn == [pending |-> TRUE]

(***************************************************************************)
(* Bounds of the model.                                                    *)
(***************************************************************************)
\* The versions of specifiers are 3.0 .. 3.MaxMinor, with their pre-releases and
\* patch releases.
MaxMinor == 1

\* The patch releases of a specifier's version are x.y.0 .. x.y.MaxPatch.
MaxPatch == 1

\* The longest specifier set version_specifiers_to_ranges is called on.
MaxSpecifiers == 2

\* The most specifiers the two sets is_disjoint_version_specifiers is called on
\* hold together.
MaxPairSpecifiers == 3

\* The most leaves of the tree marker_dnf_as_vec is called on.
MaxLeaves == 3

\* The most leaves of a tree whose leaves are copies of one atom.
MaxCopies == 3

\* The most leaves of each of the two trees is_disjoint_marker_tree is called
\* on.
MaxPairLeaves == 2

\* The longest run of - and _ in a project name and in a filename.
MaxRun == 2

\* The most leaves of the marker tree of the requirement collect_extras is
\* called on.
MaxExtraLeaves == 3

\* The most version specifiers of the requirement string
\* parse_requirement_with_fixup is called on.
MaxFixupSpecifiers == 3

\* The second release numbers of the ends of the ranges intersect and
\* is_disjoint are called on are 0 .. MaxRangeMinor.
MaxRangeMinor == 1

(***************************************************************************)
(* Option<T>: None is the empty sequence, Some(x) the sequence <<x>>.      *)
(***************************************************************************)
None == <<>>

Some(x) == <<x>>

is_some(o) == o # <<>>

unwrap(o) == o[1]

(***************************************************************************)
(* pep440_rs::Version.  release is the non-empty sequence of release       *)
(* numbers; pre is 0 for a version without a pre-release segment and n > 0 *)
(* for the pre-release "a<n>"; local tells whether there is a local        *)
(* segment.  Post and dev segments are not modelled.                       *)
(***************************************************************************)
MkVersion(release, pre) ==
    [epoch |-> 0, release |-> release, pre |-> pre, local |-> FALSE]

\* Ordering::Less, Ordering::Equal, Ordering::Greater
Less == "Less"

Equal == "Equal"

Greater == "Greater"

cmp_int(a, b) == IF a < b THEN Less ELSE IF a > b THEN Greater ELSE Equal

\* pep440_rs compares releases number by number, the shorter one padded with
\* zeros: 3.8 = 3.8.0.
RECURSIVE compare_release(_, _)
compare_release(a, b) ==
    IF a = <<>> /\ b = <<>> THEN Equal
    ELSE LET x == IF a = <<>> THEN 0 ELSE Head(a)
             y == IF b = <<>> THEN 0 ELSE Head(b)
         IN  IF x # y THEN cmp_int(x, y)
             ELSE compare_release(IF a = <<>> THEN a ELSE Tail(a),
                                  IF b = <<>> THEN b ELSE Tail(b))

\* A pre-release sorts before the final release: 3.8a1 < 3.8a2 < 3.8.
cmp_pre(a, b) ==
    IF a = b THEN Equal
    ELSE IF a = 0 THEN Greater
    ELSE IF b = 0 THEN Less
    ELSE cmp_int(a, b)

cmp_bool(a, b) == IF a = b THEN Equal ELSE IF b THEN Less ELSE Greater

\* Ord for Version: epoch, release, pre-release, local segment.
version_cmp(a, b) ==
    IF a.epoch # b.epoch THEN cmp_int(a.epoch, b.epoch)
    ELSE IF compare_release(a.release, b.release) # Equal
         THEN compare_release(a.release, b.release)
    ELSE IF cmp_pre(a.pre, b.pre) # Equal THEN cmp_pre(a.pre, b.pre)
    ELSE cmp_bool(a.local, b.local)

\* PartialEq for Version is cmp() == Equal, so 3.8 == 3.8.0.
version_eq(a, b) == version_cmp(a, b) = Equal

\* Ord for Option<Version>: None < Some(_).
option_version_cmp(a, b) ==
    IF a = None /\ b = None THEN Equal
    ELSE IF a = None THEN Less
    ELSE IF b = None THEN Greater
    ELSE version_cmp(unwrap(a), unwrap(b))

option_version_eq(a, b) == option_version_cmp(a, b) = Equal

\* `*v.release.last_mut().unwrap() += 1`
increment_last(release) ==
    [release EXCEPT ![Len(release)] = release[Len(release)] + 1]

\* `v.release.pop()`
pop_last(release) == SubSeq(release, 1, Len(release) - 1)

(***************************************************************************)
(* pep440_rs::VersionSpecifier: an operator and a version.  The operators  *)
(* are named as pep440_rs::Operator names them.                            *)
(***************************************************************************)
Operators ==
    {"Equal", "EqualStar", "ExactEqual", "NotEqual", "NotEqualStar",
     "TildeEqual", "LessThan", "LessThanEqual", "GreaterThan",
     "GreaterThanEqual"}

MkSpecifier(operator, version) == [operator |-> operator, version |-> version]

\* VersionSpecifier::new accepts a star only with == and !=, on a version
\* without pre-release or local segment, ~= only on a version with at least
\* two release numbers, and a local segment only with ==, === and !=.
valid_specifier(s) ==
    /\ s.operator \in {"EqualStar", "NotEqualStar"}
          => s.version.pre = 0 /\ ~s.version.local
    /\ s.operator = "TildeEqual" => Len(s.version.release) >= 2
    /\ s.version.local => s.operator \in {"Equal", "ExactEqual", "NotEqual"}

(***************************************************************************)
(* VersionRange and its operations.                                        *)
(***************************************************************************)
VersionRange(min, min_inclusive, max, max_inclusive) ==
    [min |-> min, min_inclusive |-> min_inclusive,
     max |-> max, max_inclusive |-> max_inclusive]

\* An intersection that joins the flags of the two upper ends also when one
\* of them is absent.
intersect_joining_flags(self, other) ==
    LET lo == option_version_cmp(self.min, other.min)
        hi == option_version_cmp(self.max, other.max)
    IN  VersionRange(
            IF lo = Less THEN other.min ELSE self.min,
            IF lo = Greater THEN self.min_inclusive
            ELSE IF lo = Equal THEN self.min_inclusive /\ other.min_inclusive
            ELSE other.min_inclusive,
            IF self.max = None THEN other.max
            ELSE IF other.max = None THEN self.max
            ELSE IF hi = Greater THEN other.max ELSE self.max,
            IF self.max = None \/ other.max = None \/ hi = Equal
            THEN self.max_inclusive /\ other.max_inclusive
            ELSE IF hi = Less THEN self.max_inclusive
            ELSE other.max_inclusive)

\* VersionRange::intersect
intersect(self, other) ==
    LET lo == option_version_cmp(self.min, other.min)
        min == IF lo = Less THEN other.min ELSE self.min
        min_inclusive ==
            IF lo = Greater THEN self.min_inclusive
            ELSE IF lo = Equal THEN self.min_inclusive /\ other.min_inclusive
            ELSE other.min_inclusive
        hi == option_version_cmp(self.max, other.max)
        max == IF self.max = None /\ other.max = None THEN None
               ELSE IF self.max = None THEN other.max
               ELSE IF other.max = None THEN self.max
               ELSE IF hi = Greater THEN other.max ELSE self.max
        max_inclusive ==
            IF self.max = None /\ other.max = None THEN TRUE
            ELSE IF self.max = None THEN other.max_inclusive
            ELSE IF other.max = None THEN self.max_inclusive
            ELSE IF hi = Less THEN self.max_inclusive
            ELSE IF hi = Equal THEN self.max_inclusive /\ other.max_inclusive
            ELSE other.max_inclusive
    IN  VersionRange(min, min_inclusive, max, max_inclusive)

\* `a.as_ref().zip(b.as_ref()).map_or(true, |(x, y)| x > y)`
zip_greater_or_true(a, b) ==
    IF a = None \/ b = None THEN TRUE
    ELSE version_cmp(unwrap(a), unwrap(b)) = Greater

\* A disjointness test for which two ranges that touch are disjoint, whatever
\* their flags.
is_disjoint_when_touching(self, other) ==
    ~(zip_greater_or_true(self.max, other.min)
          /\ zip_greater_or_true(other.max, self.min))

\* VersionRange::is_disjoint
is_disjoint(self, other) ==
    LET overlapping1 ==
            \/ zip_greater_or_true(self.max, other.min)
            \/ /\ option_version_eq(self.max, other.min)
               /\ self.max_inclusive
               /\ other.min_inclusive
        overlapping2 ==
            \/ zip_greater_or_true(other.max, self.min)
            \/ /\ option_version_eq(self.min, other.max)
               /\ self.min_inclusive
               /\ other.max_inclusive
    IN  ~(overlapping1 /\ overlapping2)

\* The version of `specifier` with its last release number incremented.
version_incremented(v) == [v EXCEPT !.release = increment_last(v.release)]

\* The version of a ~= specifier with its last release number dropped and the
\* new last one incremented.
version_popped_incremented(v) ==
    [v EXCEPT !.release = increment_last(pop_last(v.release))]

\* fn version_specifier_to_ranges: the pair (range, Option<range>).
version_specifier_to_ranges(specifier) ==
    LET v == specifier.version
        op == specifier.operator
    IN  CASE op = "Equal" ->
               <<VersionRange(Some(v), TRUE, Some(v), TRUE), None>>
          [] op = "EqualStar" ->
               <<VersionRange(Some(v), TRUE, Some(version_incremented(v)), FALSE),
                 None>>
          [] op = "ExactEqual" ->
               <<VersionRange(Some(v), TRUE, Some(v), TRUE), None>>
          [] op = "NotEqual" ->
               <<VersionRange(None, TRUE, Some(v), FALSE),
                 Some(VersionRange(Some(v), FALSE, None, TRUE))>>
          [] op = "NotEqualStar" ->
               <<VersionRange(None, TRUE, Some(v), FALSE),
                 Some(VersionRange(Some(version_incremented(v)), TRUE, None, TRUE))>>
          [] op = "TildeEqual" ->
               <<VersionRange(Some(v), TRUE,
                              Some(version_popped_incremented(v)), FALSE),
                 None>>
          [] op = "LessThan" ->
               <<VersionRange(None, TRUE, Some(v), FALSE), None>>
          [] op = "LessThanEqual" ->
               <<VersionRange(None, TRUE, Some(v), TRUE), None>>
          [] op = "GreaterThan" ->
               <<VersionRange(Some(v), FALSE, None, TRUE), None>>
          [] op = "GreaterThanEqual" ->
               <<VersionRange(Some(v), TRUE, None, TRUE), None>>

\* The range of an empty specifier set: every version.
all_versions == VersionRange(None, TRUE, None, TRUE)

\* The loop over `left_merged` in version_specifiers_to_ranges: what one
\* specifier's ranges leave of each existing range, in order.
RECURSIVE merge_ranges(_, _, _)
merge_ranges(left_merged, range1, range2) ==
    IF left_merged = <<>> THEN <<>>
    ELSE LET existing == Head(left_merged)
             first == IF ~is_disjoint(existing, range1)
                      THEN <<intersect(existing, range1)>>
                      ELSE <<>>
             second == IF is_some(range2) /\ ~is_disjoint(existing, unwrap(range2))
                       THEN <<intersect(existing, unwrap(range2))>>
                       ELSE <<>>
         IN  first \o second \o merge_ranges(Tail(left_merged), range1, range2)

\* The loop over the specifiers in version_specifiers_to_ranges.
RECURSIVE fold_specifiers(_, _)
fold_specifiers(left_merged, specifiers) ==
    IF specifiers = <<>> THEN left_merged
    ELSE LET pair == version_specifier_to_ranges(Head(specifiers))
         IN  fold_specifiers(merge_ranges(left_merged, pair[1], pair[2]),
                             Tail(specifiers))

\* fn version_specifiers_to_ranges
version_specifiers_to_ranges(specifiers) ==
    fold_specifiers(<<all_versions>>, specifiers)

\* The inner loop of is_disjoint_version_specifiers: TRUE when the loop ends,
\* FALSE when it returns early on a range that overlaps left_range.
RECURSIVE disjoint_from_each(_, _)
disjoint_from_each(left_range, right_merged) ==
    IF right_merged = <<>> THEN TRUE
    ELSE IF ~is_disjoint(left_range, Head(right_merged)) THEN FALSE
    ELSE disjoint_from_each(left_range, Tail(right_merged))

\* The outer loop of is_disjoint_version_specifiers.
RECURSIVE each_disjoint_from_each(_, _)
each_disjoint_from_each(left_merged, right_merged) ==
    IF left_merged = <<>> THEN TRUE
    ELSE IF ~disjoint_from_each(Head(left_merged), right_merged) THEN FALSE
    ELSE each_disjoint_from_each(Tail(left_merged), right_merged)

\* is_disjoint_version_specifiers as its doc comment words it ("True if any
\* two specifier in left and right are mutually exclusive"): one disjoint pair
\* of ranges is enough.
is_disjoint_version_specifiers_any_pair(left, right) ==
    LET left_merged == version_specifiers_to_ranges(left)
        right_merged == version_specifiers_to_ranges(right)
    IN  \E i \in 1..Len(left_merged) : \E j \in 1..Len(right_merged) :
            is_disjoint(left_merged[i], right_merged[j])

\* fn is_disjoint_version_specifiers
is_disjoint_version_specifiers(left, right) ==
    each_disjoint_from_each(version_specifiers_to_ranges(left),
                            version_specifiers_to_ranges(right))

(***************************************************************************)
(* What PEP 440 says a specifier matches (pep440_rs's                      *)
(* VersionSpecifier::contains).  It is the reference the ranges are        *)
(* compared with; no function of the crate computes it.                    *)
(***************************************************************************)
without_local(v) == [v EXCEPT !.local = FALSE]

\* The release starts with the numbers of `prefix`, a release shorter than the
\* prefix being padded with zeros (3.0 starts with 3.0.0).
release_starts_with(release, prefix) ==
    \A i \in 1..Len(prefix) :
        (IF i <= Len(release) THEN release[i] ELSE 0) = prefix[i]

\* <V does not match a pre-release of V unless V is itself a pre-release.
version_less_than(this, other) ==
    /\ version_cmp(other, this) = Less
    /\ ~(/\ this.pre = 0
         /\ other.pre # 0
         /\ compare_release(this.release, other.release) = Equal)

version_greater_than(this, other) == version_cmp(other, this) = Greater

contains(specifier, version) ==
    LET this == without_local(specifier.version)
        other == without_local(version)
        op == specifier.operator
    IN  CASE op = "Equal" -> version_eq(other, this)
          [] op = "EqualStar" ->
               /\ this.epoch = other.epoch
               /\ release_starts_with(other.release, this.release)
          [] op = "ExactEqual" -> specifier.version = version
          [] op = "NotEqual" -> ~version_eq(other, this)
          [] op = "NotEqualStar" ->
               \/ this.epoch # other.epoch
               \/ ~release_starts_with(other.release, this.release)
          [] op = "TildeEqual" ->
               /\ release_starts_with(other.release, pop_last(this.release))
               /\ version_cmp(other, this) # Less
          [] op = "GreaterThan" -> version_greater_than(this, other)
          [] op = "GreaterThanEqual" -> version_cmp(other, this) # Less
          [] op = "LessThan" -> version_less_than(this, other)
          [] op = "LessThanEqual" -> version_cmp(other, this) # Greater

\* A version lies in a range.
in_range(range, v) ==
    /\ \/ range.min = None
       \/ version_cmp(v, unwrap(range.min)) = Greater
       \/ range.min_inclusive /\ version_eq(v, unwrap(range.min))
    /\ \/ range.max = None
       \/ version_cmp(v, unwrap(range.max)) = Less
       \/ range.max_inclusive /\ version_eq(v, unwrap(range.max))

(***************************************************************************)
(* The sets the arguments are drawn from.                                  *)
(***************************************************************************)
\* Releases of one, two and three numbers: 3, 3.0 .. 3.MaxMinor and their
\* patch releases.
SpecifierReleases ==
    {<<3>>}
    \cup {<<3, minor>> : minor \in 0..MaxMinor}
    \cup {<<3, minor, patch>> : minor \in 0..MaxMinor, patch \in 0..MaxPatch}

\* The versions specifiers are built from: final releases and their first
\* alpha.
SpecifierVersions ==
    {MkVersion(release, pre) : release \in SpecifierReleases, pre \in 0..1}

Specifiers ==
    {s \in {MkSpecifier(operator, version) :
                operator \in Operators, version \in SpecifierVersions} :
        valid_specifier(s)}

\* The grid of versions the ranges are compared with what PEP 440 says: the
\* versions of two and three release numbers around the specifiers' versions,
\* each as first and second alpha and as final release.
GridReleases ==
    {<<major, minor>> : major \in 2..4, minor \in 0..(MaxMinor + 1)}
    \cup {<<major, minor, patch>> :
            major \in 2..4, minor \in 0..(MaxMinor + 1),
            patch \in 0..(MaxPatch + 1)}

VersionGrid == {MkVersion(release, pre) : release \in GridReleases, pre \in 0..2}

(***************************************************************************)
(* version_specifier_to_ranges, called on one specifier.                   *)
(***************************************************************************)
InitRanges ==
    /\ pc = "call"
    /\ fn = "version_specifier_to_ranges"
    /\ args \in {[specifier |-> s] : s \in Specifiers}
    /\ ret = NoReturn
    /\ warnings = <<>>

CallVersionSpecifierToRanges ==
    /\ pc = "call"
    /\ fn = "version_specifier_to_ranges"
    /\ ret' = version_specifier_to_ranges(args.specifier)
    /\ pc' = "return"
    /\ UNCHANGED <<fn, args, warnings>>

NextRanges == CallVersionSpecifierToRanges

SpecRanges == InitRanges /\ [][NextRanges]_vars

Returned(f) == pc = "return" /\ fn = f

\* The ranges of a returned pair (range, Option<range>), as a set.
ranges_of_pair(pair) ==
    {pair[1]} \cup (IF is_some(pair[2]) THEN {unwrap(pair[2])} ELSE {})

\* C3: a version lies in the union of the ranges version_specifier_to_ranges
\* returns for a specifier if and only if the version satisfies the specifier,
\* and a second range is returned only for != and !=X.*.
C3_RangesAreTheSatisfyingVersions ==
    Returned("version_specifier_to_ranges") =>
        /\ \A v \in VersionGrid :
              (\E r \in ranges_of_pair(ret) : in_range(r, v))
                  <=> contains(args.specifier, v)
        /\ is_some(ret[2])
              <=> args.specifier.operator \in {"NotEqual", "NotEqualStar"}

(***************************************************************************)
(* version_specifiers_to_ranges, called on one specifier set.              *)
(***************************************************************************)
\* The sequences of at most n elements of S.
SeqsUpTo(S, n) == UNION {[1..k -> S] : k \in 0..n}

\* The versions the specifiers of a set are built from: 3.0 .. 3.MaxMinor and
\* their first alpha.
SetVersions ==
    {MkVersion(<<3, minor>>, pre) : minor \in 0..MaxMinor, pre \in 0..1}

SetSpecifiers ==
    {s \in {MkSpecifier(operator, version) :
                operator \in Operators, version \in SetVersions} :
        valid_specifier(s)}

InitSpecifiers ==
    /\ pc = "call"
    /\ fn = "version_specifiers_to_ranges"
    /\ args \in {[specifiers |-> ss] : ss \in SeqsUpTo(SetSpecifiers, MaxSpecifiers)}
    /\ ret = NoReturn
    /\ warnings = <<>>

CallVersionSpecifiersToRanges ==
    /\ pc = "call"
    /\ fn = "version_specifiers_to_ranges"
    /\ ret' = version_specifiers_to_ranges(args.specifiers)
    /\ pc' = "return"
    /\ UNCHANGED <<fn, args, warnings>>

NextSpecifiers == CallVersionSpecifiersToRanges

SpecSpecifiers == InitSpecifiers /\ [][NextSpecifiers]_vars

(***************************************************************************)
(* is_disjoint_version_specifiers, called on two specifier sets.           *)
(***************************************************************************)
\* The specifiers of the two sets: every valid specifier on 3.0a1 and on 3.0.
PairVersions == {MkVersion(<<3, 0>>, pre) : pre \in 0..1}

PairSpecifiers ==
    {s \in {MkSpecifier(operator, version) :
                operator \in Operators, version \in PairVersions} :
        valid_specifier(s)}

InitDisjointSpecifiers ==
    /\ pc = "call"
    /\ fn = "is_disjoint_version_specifiers"
    /\ \E k \in 0..MaxPairSpecifiers :
          \E j \in 0..(MaxPairSpecifiers - k) :
              args \in {[left |-> l, right |-> r] :
                          l \in [1..k -> PairSpecifiers],
                          r \in [1..j -> PairSpecifiers]}
    /\ ret = NoReturn
    /\ warnings = <<>>

CallIsDisjointVersionSpecifiers ==
    /\ pc = "call"
    /\ fn = "is_disjoint_version_specifiers"
    /\ ret' = is_disjoint_version_specifiers(args.left, args.right)
    /\ pc' = "return"
    /\ UNCHANGED <<fn, args, warnings>>

NextDisjointSpecifiers == CallIsDisjointVersionSpecifiers

SpecDisjointSpecifiers == InitDisjointSpecifiers /\ [][NextDisjointSpecifiers]_vars

\* The elements of a sequence.
Elements(seq) == {seq[i] : i \in 1..Len(seq)}

\* A version satisfies every specifier of a set.
contains_all(specifiers, v) == \A s \in Elements(specifiers) : contains(s, v)

\* C2: when is_disjoint_version_specifiers returns true, no version of the grid
\* satisfies every specifier of the left set and every specifier of the right
\* set.
C2_DisjointSpecifiersNoFalsePositive ==
    Returned("is_disjoint_version_specifiers") /\ ret = TRUE =>
        \A v \in VersionGrid :
            ~(contains_all(args.left, v) /\ contains_all(args.right, v))

non_empty(range) ==
    \/ range.min = None
    \/ range.max = None
    \/ version_cmp(unwrap(range.min), unwrap(range.max)) = Less
    \/ /\ version_eq(unwrap(range.min), unwrap(range.max))
       /\ range.min_inclusive
       /\ range.max_inclusive

\* Range a ends before range b starts, so the two share no version.
ends_before(a, b) ==
    /\ a.max # None
    /\ b.min # None
    /\ \/ version_cmp(unwrap(a.max), unwrap(b.min)) = Less
       \/ /\ version_eq(unwrap(a.max), unwrap(b.min))
          /\ ~(a.max_inclusive /\ b.min_inclusive)

\* The list holds non-empty ranges, each ending before the next starts.
disjoint_ascending(ranges) ==
    /\ \A i \in 1..Len(ranges) : non_empty(ranges[i])
    /\ \A i \in 1..Len(ranges) : \A j \in 1..Len(ranges) :
          i < j => ends_before(ranges[i], ranges[j])

\* A version lies in one of the ranges of every specifier of the set.
in_ranges_of_all(specifiers, v) ==
    \A s \in Elements(specifiers) :
        \E r \in ranges_of_pair(version_specifier_to_ranges(s)) : in_range(r, v)

\* C10: the ranges version_specifiers_to_ranges returns are non-empty,
\* pairwise disjoint and ascending, the empty specifier set yields the single
\* universal range, and a set no version satisfies yields the empty list.
C10_UnsatisfiableYieldsNoRange ==
    Returned("version_specifiers_to_ranges") =>
        /\ disjoint_ascending(ret)
        /\ args.specifiers = <<>> => ret = <<all_versions>>
        /\ (\A v \in VersionGrid : ~contains_all(args.specifiers, v)) => ret = <<>>

\* What version_specifiers_to_ranges does guarantee: the ranges are non-empty,
\* pairwise disjoint and ascending, the empty specifier set yields the single
\* universal range, and a set whose specifiers' ranges share no version
\* yields the empty list.
RangesDisjointAscending ==
    Returned("version_specifiers_to_ranges") =>
        /\ disjoint_ascending(ret)
        /\ args.specifiers = <<>> => ret = <<all_versions>>
        /\ (\A v \in VersionGrid : ~in_ranges_of_all(args.specifiers, v))
              => ret = <<>>

Ascii ==
    <<" ", "!", "\"", "#", "$", "%", "&", "'", "(", ")", "*", "+", ",", "-",
      ".", "/", "0", "1", "2", "3", "4", "5", "6", "7", "8", "9", ":", ";",
      "<", "=", ">", "?", "@", "A", "B", "C", "D", "E", "F", "G", "H", "I",
      "J", "K", "L", "M", "N", "O", "P", "Q", "R", "S", "T", "U", "V", "W",
      "X", "Y", "Z", "[", "\\", "]", "^", "_", "backquote", "a", "b", "c", "d", "e",
      "f", "g", "h", "i", "j", "k", "l", "m", "n", "o", "p", "q", "r", "s",
      "t", "u", "v", "w", "x", "y", "z", "{", "|", "}", "~">>

\* The byte of a character.
Byte(c) == 31 + CHOOSE i \in 1..Len(Ascii) : Ascii[i] = c

\* Ord for str: byte-wise lexicographic, a proper prefix sorting first.
str_cmp(a, b) ==
    LET n == IF Len(a) < Len(b) THEN Len(a) ELSE Len(b)
        differing == {i \in 1..n : a[i] # b[i]}
    IN  IF differing = {} THEN cmp_int(Len(a), Len(b))
        ELSE LET i == CHOOSE i \in differing : \A j \in differing : i <= j
             IN  cmp_int(Byte(a[i]), Byte(b[i]))

\* str::contains: `needle` is a substring of `haystack`.
str_contains(haystack, needle) ==
    \E start \in 1..(Len(haystack) - Len(needle) + 1) :
        SubSeq(haystack, start, start + Len(needle) - 1) = needle

\* The position of the first `c` in `s`, 0 when there is none.
find(s, c) ==
    IF \E i \in 1..Len(s) : s[i] = c
    THEN CHOOSE i \in 1..Len(s) : s[i] = c /\ \A j \in 1..(i - 1) : s[j] # c
    ELSE 0

Digits == {"0", "1", "2", "3", "4", "5", "6", "7", "8", "9"}

\* char::is_ascii_digit or char::is_ascii_lowercase
is_alphanumeric(c) ==
    \/ c \in Digits
    \/ Byte("a") <= Byte(c) /\ Byte(c) <= Byte("z")

\* A non-empty run of digits.
is_number(s) == s # <<>> /\ \A i \in 1..Len(s) : s[i] \in Digits

\* The number a run of digits writes.
RECURSIVE parse_number(_)
parse_number(s) ==
    IF s = <<>> THEN 0
    ELSE 10 * parse_number(SubSeq(s, 1, Len(s) - 1)) + (Byte(s[Len(s)]) - Byte("0"))

\* str::split: the pieces of `s` between the occurrences of `c`.
RECURSIVE split(_, _)
split(s, c) ==
    IF find(s, c) = 0 THEN <<s>>
    ELSE <<SubSeq(s, 1, find(s, c) - 1)>>
             \o split(SubSeq(s, find(s, c) + 1, Len(s)), c)

(***************************************************************************)
(* Version::from_str_star and Version::from_str of pep440_rs, on the       *)
(* versions of the model: [N!]N(.N)*[aN][+local][.*] with   *)
(* a pre-release number N > 0.  Any other string is a parse error: the     *)
(* strings of the model hold no version in another PEP 440 spelling (a0,   *)
(* rc, post, dev, a leading v, ...).  The result is Some(<<version,        *)
(* star>>), or None for Err.                                               *)
(***************************************************************************)
\* The part of `s` before the first `c`, all of `s` when there is none.
before(s, c) == IF find(s, c) = 0 THEN s ELSE SubSeq(s, 1, find(s, c) - 1)

\* The part of `s` after the first `c`, empty when there is none.
after(s, c) == IF find(s, c) = 0 THEN <<>> ELSE SubSeq(s, find(s, c) + 1, Len(s))

\* The string ends with the wildcard .*
ends_with_star(s) == Len(s) >= 2 /\ s[Len(s) - 1] = "." /\ s[Len(s)] = "*"

\* The string without its trailing wildcard.
unstarred(s) == IF ends_with_star(s) THEN SubSeq(s, 1, Len(s) - 2) ELSE s

\* The version of the segments of a version string, None when a segment is
\* malformed.
version_of_segments(star, has_local, local, has_epoch, epoch, has_pre, pre, release) ==
    LET well_formed ==
            /\ has_epoch => is_number(epoch)
            /\ \A i \in 1..Len(release) : is_number(release[i])
            /\ has_pre => is_number(pre) /\ parse_number(pre) > 0
            /\ has_local =>
                  /\ local # <<>>
                  /\ \A i \in 1..Len(local) : is_alphanumeric(local[i])
    IN  IF ~well_formed THEN None
        ELSE Some(<<[epoch |-> IF has_epoch THEN parse_number(epoch) ELSE 0,
                     release |-> [i \in 1..Len(release) |-> parse_number(release[i])],
                     pre |-> IF has_pre THEN parse_number(pre) ELSE 0,
                     local |-> has_local],
                    star>>)

\* The release and pre-release segments: N(.N)*[aN]
parse_release(star, has_local, local, has_epoch, epoch, unepoched) ==
    version_of_segments(star, has_local, local, has_epoch, epoch,
                        find(unepoched, "a") # 0, after(unepoched, "a"),
                        split(before(unepoched, "a"), "."))

\* The epoch segment: [N!]
parse_epoch(star, has_local, local, public) ==
    parse_release(star, has_local, local,
                  find(public, "!") # 0, before(public, "!"),
                  IF find(public, "!") = 0 THEN public ELSE after(public, "!"))

\* The local segment: [+local]
parse_local(star, text) ==
    parse_epoch(star, find(text, "+") # 0, after(text, "+"), before(text, "+"))

from_str_star(s) == parse_local(ends_with_star(s), unstarred(s))

\* The version of a parse without a wildcard.
without_star(parsed) ==
    IF parsed = None \/ unwrap(parsed)[2] THEN None
    ELSE Some(unwrap(parsed)[1])

\* Version::from_str: a trailing .* is an error.
from_str(s) == without_star(from_str_star(s))

(***************************************************************************)
(* pep508_rs: MarkerValue, MarkerOperator, MarkerExpression, MarkerTree.   *)
(* Keys and operators are named by their variant names.                    *)
(*   MarkerValue:       [tag |-> "MarkerEnvVersion", key |-> k]            *)
(*                      [tag |-> "MarkerEnvString", key |-> k]             *)
(*                      [tag |-> "Extra"]                                  *)
(*                      [tag |-> "QuotedString", value |-> string]         *)
(*   MarkerExpression:  [l_value |-> v, operator |-> op, r_value |-> v]    *)
(*   MarkerTree:        [kind |-> "Expression", expr |-> e]                *)
(*                      [kind |-> "And", children |-> trees]               *)
(*                      [kind |-> "Or", children |-> trees]                *)
(***************************************************************************)
MarkerEnvVersion(key) == [tag |-> "MarkerEnvVersion", key |-> key]

MarkerEnvString(key) == [tag |-> "MarkerEnvString", key |-> key]

Extra == [tag |-> "Extra"]

QuotedString(value) == [tag |-> "QuotedString", value |-> value]

MarkerExpression(l_value, operator, r_value) ==
    [l_value |-> l_value, operator |-> operator, r_value |-> r_value]

Expression(expr) == [kind |-> "Expression", expr |-> expr]

And(children) == [kind |-> "And", children |-> children]

Or(children) == [kind |-> "Or", children |-> children]

\* Display for MarkerValueVersion
MarkerValueVersionDisplay ==
    [ImplementationVersion |->
        <<"i", "m", "p", "l", "e", "m", "e", "n", "t", "a", "t", "i", "o",
          "n", "_", "v", "e", "r", "s", "i", "o", "n">>,
     PythonFullVersion |->
        <<"p", "y", "t", "h", "o", "n", "_", "f", "u", "l", "l", "_", "v",
          "e", "r", "s", "i", "o", "n">>,
     PythonVersion |->
        <<"p", "y", "t", "h", "o", "n", "_", "v", "e", "r", "s", "i", "o",
          "n">>]

\* Display for MarkerValueString
MarkerValueStringDisplay ==
    [ImplementationName |->
        <<"i", "m", "p", "l", "e", "m", "e", "n", "t", "a", "t", "i", "o",
          "n", "_", "n", "a", "m", "e">>,
     OsName |->
        <<"o", "s", "_", "n", "a", "m", "e">>,
     PlatformMachine |->
        <<"p", "l", "a", "t", "f", "o", "r", "m", "_", "m", "a", "c", "h",
          "i", "n", "e">>,
     PlatformPythonImplementation |->
        <<"p", "l", "a", "t", "f", "o", "r", "m", "_", "p", "y", "t", "h",
          "o", "n", "_", "i", "m", "p", "l", "e", "m", "e", "n", "t", "a",
          "t", "i", "o", "n">>,
     PlatformRelease |->
        <<"p", "l", "a", "t", "f", "o", "r", "m", "_", "r", "e", "l", "e",
          "a", "s", "e">>,
     PlatformSystem |->
        <<"p", "l", "a", "t", "f", "o", "r", "m", "_", "s", "y", "s", "t",
          "e", "m">>,
     PlatformVersion |->
        <<"p", "l", "a", "t", "f", "o", "r", "m", "_", "v", "e", "r", "s",
          "i", "o", "n">>,
     SysPlatform |->
        <<"s", "y", "s", "_", "p", "l", "a", "t", "f", "o", "r", "m">>]

\* Display for MarkerOperator
MarkerOperatorDisplay ==
    [Equal |->
        <<"=", "=">>,
     NotEqual |->
        <<"!", "=">>,
     GreaterThan |->
        <<">">>,
     GreaterEqual |->
        <<">", "=">>,
     LessThan |->
        <<"<">>,
     LessEqual |->
        <<"<", "=">>,
     TildeEqual |->
        <<"~", "=">>,
     In |->
        <<"i", "n">>,
     NotIn |->
        <<"n", "o", "t", " ", "i", "n">>]

\* Debug for a fieldless variant: its name.
VariantName ==
    [ImplementationVersion |->
        <<"I", "m", "p", "l", "e", "m", "e", "n", "t", "a", "t", "i", "o",
          "n", "V", "e", "r", "s", "i", "o", "n">>,
     PythonFullVersion |->
        <<"P", "y", "t", "h", "o", "n", "F", "u", "l", "l", "V", "e", "r",
          "s", "i", "o", "n">>,
     PythonVersion |->
        <<"P", "y", "t", "h", "o", "n", "V", "e", "r", "s", "i", "o", "n">>,
     ImplementationName |->
        <<"I", "m", "p", "l", "e", "m", "e", "n", "t", "a", "t", "i", "o",
          "n", "N", "a", "m", "e">>,
     OsName |->
        <<"O", "s", "N", "a", "m", "e">>,
     PlatformMachine |->
        <<"P", "l", "a", "t", "f", "o", "r", "m", "M", "a", "c", "h", "i",
          "n", "e">>,
     PlatformPythonImplementation |->
        <<"P", "l", "a", "t", "f", "o", "r", "m", "P", "y", "t", "h", "o",
          "n", "I", "m", "p", "l", "e", "m", "e", "n", "t", "a", "t", "i",
          "o", "n">>,
     PlatformRelease |->
        <<"P", "l", "a", "t", "f", "o", "r", "m", "R", "e", "l", "e", "a",
          "s", "e">>,
     PlatformSystem |->
        <<"P", "l", "a", "t", "f", "o", "r", "m", "S", "y", "s", "t", "e",
          "m">>,
     PlatformVersion |->
        <<"P", "l", "a", "t", "f", "o", "r", "m", "V", "e", "r", "s", "i",
          "o", "n">>,
     SysPlatform |->
        <<"S", "y", "s", "P", "l", "a", "t", "f", "o", "r", "m">>,
     Equal |->
        <<"E", "q", "u", "a", "l">>,
     NotEqual |->
        <<"N", "o", "t", "E", "q", "u", "a", "l">>,
     GreaterThan |->
        <<"G", "r", "e", "a", "t", "e", "r", "T", "h", "a", "n">>,
     GreaterEqual |->
        <<"G", "r", "e", "a", "t", "e", "r", "E", "q", "u", "a", "l">>,
     LessThan |->
        <<"L", "e", "s", "s", "T", "h", "a", "n">>,
     LessEqual |->
        <<"L", "e", "s", "s", "E", "q", "u", "a", "l">>,
     TildeEqual |->
        <<"T", "i", "l", "d", "e", "E", "q", "u", "a", "l">>,
     In |->
        <<"I", "n">>,
     NotIn |->
        <<"N", "o", "t", "I", "n">>,
     MarkerEnvVersion |->
        <<"M", "a", "r", "k", "e", "r", "E", "n", "v", "V", "e", "r", "s",
          "i", "o", "n">>,
     MarkerEnvString |->
        <<"M", "a", "r", "k", "e", "r", "E", "n", "v", "S", "t", "r", "i",
          "n", "g">>,
     Extra |->
        <<"E", "x", "t", "r", "a">>,
     QuotedString |->
        <<"Q", "u", "o", "t", "e", "d", "S", "t", "r", "i", "n", "g">>]

\* Display for MarkerValue: a key by its PEP 508 name, a quoted string in
\* single quotes, or in double quotes when it holds a single quote.
value_to_string(value) ==
    CASE value.tag = "MarkerEnvVersion" -> MarkerValueVersionDisplay[value.key]
      [] value.tag = "MarkerEnvString" -> MarkerValueStringDisplay[value.key]
      [] value.tag = "Extra" -> <<"e", "x", "t", "r", "a">>
      [] value.tag = "QuotedString" ->
           IF find(value.value, "'") # 0
           THEN <<"\"">> \o value.value \o <<"\"">>
           ELSE <<"'">> \o value.value \o <<"'">>

\* Display for MarkerExpression: "{l_value} {operator} {r_value}".
to_string(expr) ==
    value_to_string(expr.l_value) \o <<" ">>
        \o MarkerOperatorDisplay[expr.operator] \o <<" ">>
        \o value_to_string(expr.r_value)

\* Debug for str, without the quotes around it: " and \ are escaped.
RECURSIVE escape_debug(_)
escape_debug(s) ==
    IF s = <<>> THEN <<>>
    ELSE (IF Head(s) \in {"\"", "\\"} THEN <<"\\", Head(s)>> ELSE <<Head(s)>>)
             \o escape_debug(Tail(s))

\* Debug for MarkerValue.
value_debug(value) ==
    CASE value.tag \in {"MarkerEnvVersion", "MarkerEnvString"} ->
           VariantName[value.tag] \o <<"(">> \o VariantName[value.key] \o <<")">>
      [] value.tag = "Extra" -> VariantName["Extra"]
      [] value.tag = "QuotedString" ->
           VariantName["QuotedString"] \o <<"(", "\"">>
               \o escape_debug(value.value) \o <<"\"", ")">>

\* Debug for MarkerExpression (derived).
expr_debug(expr) ==
    <<"M", "a", "r", "k", "e", "r", "E", "x", "p", "r", "e", "s", "s", "i", "o", "n", " ", "{", " ", "l", "_", "v", "a", "l", "u", "e", ":", " ">>
        \o value_debug(expr.l_value)
        \o <<",", " ", "o", "p", "e", "r", "a", "t", "o", "r", ":", " ">>
        \o VariantName[expr.operator]
        \o <<",", " ", "r", "_", "v", "a", "l", "u", "e", ":", " ">>
        \o value_debug(expr.r_value) \o <<" ", "}">>

\* Debug for Vec<MarkerExpression>: "[e1, e2, ...]".
RECURSIVE join_debug(_)
join_debug(exprs) ==
    IF exprs = <<>> THEN <<>>
    ELSE IF Len(exprs) = 1 THEN expr_debug(exprs[1])
    ELSE expr_debug(exprs[1]) \o <<",", " ">> \o join_debug(Tail(exprs))

vec_debug(exprs) == <<"[">> \o join_debug(exprs) \o <<"]">>

(***************************************************************************)
(* normalized_marker_expression.rs.  What the reporter receives is a       *)
(* sequence of warnings (kind, message, marker), the message without the   *)
(* values formatted into it and without its backquotes.  A function that   *)
(* may report returns its result together with the warnings it reported.   *)
(***************************************************************************)
Warning(kind, message, marker) ==
    [kind |-> kind, message |-> message, marker |-> marker]

Reported(result, reported) == [result |-> result, warnings |-> reported]

\* NormalizedExtraEqualityOperator::from_marker
extra_operator_from_marker(marker) ==
    CASE marker.operator = "Equal" -> Reported(Some("Equal"), <<>>)
      [] marker.operator = "NotEqual" -> Reported(Some("NotEqual"), <<>>)
      [] OTHER ->
           Reported(None,
               <<Warning("ExtraInvalidComparison",
                         "Comparing extra with something other than equal (==) or unequal (!=) is wrong",
                         marker)>>)

\* from_marker rejecting the ordering operators as it rejects ~=.
equality_operator_rejecting_order(marker) ==
    CASE marker.operator \in {"Equal", "NotEqual", "In", "NotIn"} ->
           Reported(Some(marker.operator), <<>>)
      [] OTHER ->
           Reported(None,
               <<Warning("LexicographicComparison",
                         "Can't compare {} and {} with ~=", marker)>>)

\* NormalizedMarkerEqualityOperator::from_marker
equality_operator_from_marker(marker) ==
    CASE marker.operator \in {"Equal", "NotEqual", "In", "NotIn"} ->
           Reported(Some(marker.operator), <<>>)
      [] marker.operator \in {"GreaterThan", "GreaterEqual", "LessThan", "LessEqual"} ->
           Reported(Some(marker.operator),
               <<Warning("LexicographicComparison",
                         "Comparing {} and {} lexicographically", marker)>>)
      [] marker.operator = "TildeEqual" ->
           Reported(None,
               <<Warning("LexicographicComparison",
                         "Can't compare {} and {} with ~=", marker)>>)

\* NormalizedMarkerFieldValue
MarkerLeftValueRight(left, right) ==
    [side |-> "MarkerLeftValueRight", left |-> left, right |-> right]

ValueLeftMarkerRight(left, right) ==
    [side |-> "ValueLeftMarkerRight", left |-> left, right |-> right]

get_marker(self) ==
    IF self.side = "MarkerLeftValueRight" THEN self.left ELSE self.right

get_value(self) ==
    IF self.side = "MarkerLeftValueRight" THEN self.right ELSE self.left

\* NormalizedMarkerExpression
NormalizedMarkerEnvVersion(field, version_specifiers) ==
    [type |-> "MarkerEnvVersion", field |-> field,
     version_specifiers |-> version_specifiers]

NormalizedMarkerEnvString(marker_value, operator) ==
    [type |-> "MarkerEnvString", marker_value |-> marker_value,
     operator |-> operator]

NormalizedExtra(operator, value) ==
    [type |-> "Extra", operator |-> operator, value |-> value]

\* pep440_rs's Operator::to_star
to_star(operator) ==
    CASE operator = "Equal" -> Some("EqualStar")
      [] operator = "NotEqual" -> Some("NotEqualStar")
      [] OTHER -> None

\* pep440_rs's VersionSpecifier::new(operator, version, star): Some(specifier),
\* or None for Err.
new_specifier(operator, version, star) ==
    LET starred == IF star THEN to_star(operator) ELSE Some(operator)
    IN  IF starred = None THEN None
        ELSE IF ~valid_specifier(MkSpecifier(unwrap(starred), version)) THEN None
        ELSE Some(MkSpecifier(unwrap(starred), version))

\* Version::from_release(vec![l_version.release[0]])
major_version(l_version) == MkVersion(<<l_version.release[1]>>, 0)

\* The operator table that mirrors every ordering operator: > to <, >= to
\* <=, < to > and <= to >=.
mirror_version_operator(operator, l_version) ==
    CASE operator = "Equal" -> Some(<<MkSpecifier("Equal", l_version)>>)
      [] operator = "NotEqual" -> Some(<<MkSpecifier("NotEqual", l_version)>>)
      [] operator = "GreaterThan" -> Some(<<MkSpecifier("LessThan", l_version)>>)
      [] operator = "GreaterEqual" -> Some(<<MkSpecifier("LessThanEqual", l_version)>>)
      [] operator = "LessThan" -> Some(<<MkSpecifier("GreaterThan", l_version)>>)
      [] operator = "LessEqual" -> Some(<<MkSpecifier("GreaterThanEqual", l_version)>>)
      [] operator = "TildeEqual" ->
           Some(<<MkSpecifier("LessThanEqual", l_version),
                  MkSpecifier("GreaterThan", MkVersion(<<l_version.release[1]>>, 0))>>)
      [] operator \in {"In", "NotIn"} -> None

\* fn invert_and_normalize_version_operator
invert_and_normalize_version_operator(operator, l_version) ==
    LET make_specifiers(op) == <<unwrap(new_specifier(op, l_version, FALSE))>>
    IN  CASE operator = "Equal" -> Some(make_specifiers("Equal"))
          [] operator = "NotEqual" -> Some(make_specifiers("NotEqual"))
          [] operator = "GreaterThan" -> Some(make_specifiers("LessThanEqual"))
          [] operator = "GreaterEqual" -> Some(make_specifiers("LessThan"))
          [] operator = "LessThan" -> Some(make_specifiers("GreaterThanEqual"))
          [] operator = "LessEqual" -> Some(make_specifiers("LessThanEqual"))
          [] operator = "TildeEqual" ->
               Some(<<unwrap(new_specifier("LessThanEqual", l_version, FALSE)),
                      unwrap(new_specifier("GreaterThan",
                                           major_version(l_version), FALSE))>>)
          [] operator \in {"In", "NotIn"} -> None

\* fn to_pep440_operator
to_pep440_operator(op) ==
    CASE op = "Equal" -> Some("Equal")
      [] op = "NotEqual" -> Some("NotEqual")
      [] op = "GreaterThan" -> Some("GreaterThan")
      [] op = "GreaterEqual" -> Some("GreaterThanEqual")
      [] op = "LessThan" -> Some("LessThan")
      [] op = "LessEqual" -> Some("LessThanEqual")
      [] op = "TildeEqual" -> Some("TildeEqual")
      [] op = "In" -> None
      [] op = "NotIn" -> None

\* A return of None that does not call the reporter.
Pep440ErrorUnreported(message, marker) == Reported(None, <<>>)

Pep440Error(message, marker) ==
    Reported(None, <<Warning("Pep440Error", message, marker)>>)

\* normalize_marker_expression, l_value a version key.
normalize_version_key_left(marker) ==
    LET l_key == marker.l_value.key
        parsed == from_str_star(marker.r_value.value)
        r_version == unwrap(parsed)[1]
        r_star == unwrap(parsed)[2]
        operator == to_pep440_operator(marker.operator)
        specifier == new_specifier(unwrap(operator), r_version, r_star)
    IN  IF marker.r_value.tag # "QuotedString"
        THEN Pep440Error("Expected double quoted PEP 440 version to compare with {}, found {}",
                         marker)
        ELSE IF parsed = None
        THEN Pep440Error("Expected PEP 440 version to compare with {}, found {}: {}",
                         marker)
        ELSE IF operator = None
        THEN Pep440Error("Expected PEP 440 version operator to compare {} with '{}', found '{}'",
                         marker)
        ELSE IF specifier = None
        THEN Pep440Error("Invalid operator/version combination: {}", marker)
        ELSE Reported(Some(NormalizedMarkerEnvVersion(l_key, <<unwrap(specifier)>>)),
                      <<>>)

\* A string key on the left whose marker on the right is reported as a
\* version key on the left reports it.
normalize_string_key_left_as_version_key(marker) ==
    LET l_key == marker.l_value.key
        operator == equality_operator_from_marker(marker)
    IN  IF marker.r_value.tag # "QuotedString"
        THEN Pep440Error("Expected double quoted PEP 440 version to compare with {}, found {}",
                         marker)
        ELSE IF operator.result = None THEN Reported(None, operator.warnings)
        ELSE Reported(
                 Some(NormalizedMarkerEnvString(
                          [side |-> "MarkerLeftValueRight", left |-> l_key,
                           right |-> marker.r_value.value],
                          unwrap(operator.result))),
                 operator.warnings)

\* normalize_marker_expression, l_value a string key.
normalize_string_key_left(marker) ==
    LET l_key == marker.l_value.key
        operator == equality_operator_from_marker(marker)
    IN  IF marker.r_value.tag # "QuotedString"
        THEN Reported(None,
                 <<Warning("MarkerMarkerComparison",
                           "Comparing two markers with each other doesn't make any sense",
                           marker)>>)
        ELSE IF operator.result = None THEN Reported(None, operator.warnings)
        ELSE Reported(
                 Some(NormalizedMarkerEnvString(
                          MarkerLeftValueRight(l_key, marker.r_value.value),
                          unwrap(operator.result))),
                 operator.warnings)

\* normalize_marker_expression, l_value the extra marker.
normalize_extra_left(marker) ==
    LET operator == extra_operator_from_marker(marker)
    IN  IF marker.r_value.tag # "QuotedString"
        THEN Reported(None,
                 <<Warning("ExtraInvalidComparison",
                           "Comparing extra with something other than a quoted string is wrong",
                           marker)>>)
        ELSE IF operator.result = None THEN Reported(None, operator.warnings)
        ELSE Reported(Some(NormalizedExtra(unwrap(operator.result),
                                           marker.r_value.value)),
                      <<>>)

\* normalize_marker_expression, l_value a quoted string and r_value a version
\* key.
normalize_version_key_right(marker) ==
    LET l_string == marker.l_value.value
        r_key == marker.r_value.key
        l_version == from_str(l_string)
        version_specifiers ==
            invert_and_normalize_version_operator(marker.operator, unwrap(l_version))
    IN  IF l_version = None
        THEN Pep440Error("Expected double quoted PEP 440 version to compare with {}, found {}: {}",
                         marker)
        ELSE IF unwrap(l_version).epoch # 0
        THEN Pep440Error("A PEP 440 version with epoch {} compared with {} will always evaluate to false",
                         marker)
        ELSE IF unwrap(l_version).local
        THEN Pep440Error("A PEP 440 version {} with a local version compared with {} can not be reasonably represented",
                         marker)
        ELSE IF version_specifiers = None
        THEN Pep440Error("Expected PEP 440 version operator to compare '{}' with {}, found '{}'",
                         marker)
        ELSE Reported(Some(NormalizedMarkerEnvVersion(r_key, unwrap(version_specifiers))),
                      <<>>)

\* A quoted string on the left whose string key on the right keeps the
\* atom's own operator, as a string key on the left does.
normalize_quoted_left_own_operator(marker) ==
    LET l_string == marker.l_value.value
        operator == extra_operator_from_marker(marker)
        own == equality_operator_from_marker(marker)
    IN  CASE marker.r_value.tag = "MarkerEnvVersion" ->
               normalize_version_key_right(marker)
          [] marker.r_value.tag = "MarkerEnvString" ->
               IF own.result = None THEN Reported(None, own.warnings)
               ELSE Reported(
                        Some(NormalizedMarkerEnvString(
                                 ValueLeftMarkerRight(l_string, marker.r_value.key),
                                 unwrap(own.result))),
                        own.warnings)
          [] marker.r_value.tag = "Extra" ->
               IF operator.result = None THEN Reported(None, operator.warnings)
               ELSE Reported(Some(NormalizedExtra(unwrap(operator.result), l_string)),
                             <<>>)
          [] marker.r_value.tag = "QuotedString" ->
               Reported(None,
                   <<Warning("StringStringComparison",
                             "Comparing two quoted strings with each other doesn't make sense: {}",
                             marker)>>)

\* normalize_marker_expression, l_value a quoted string.
normalize_quoted_left(marker) ==
    LET l_string == marker.l_value.value
        operator == extra_operator_from_marker(marker)
    IN  CASE marker.r_value.tag = "MarkerEnvVersion" ->
               normalize_version_key_right(marker)
          [] marker.r_value.tag = "MarkerEnvString" ->
               Reported(
                   Some(NormalizedMarkerEnvString(
                            ValueLeftMarkerRight(l_string, marker.r_value.key),
                            "Equal")),
                   <<>>)
          [] marker.r_value.tag = "Extra" ->
               IF operator.result = None THEN Reported(None, operator.warnings)
               ELSE Reported(Some(NormalizedExtra(unwrap(operator.result), l_string)),
                             <<>>)
          [] marker.r_value.tag = "QuotedString" ->
               Reported(None,
                   <<Warning("StringStringComparison",
                             "Comparing two quoted strings with each other doesn't make sense: {}",
                             marker)>>)

\* fn normalize_marker_expression: the canonical form (None when there is
\* none) and the warnings reported.
normalize_marker_expression(marker) ==
    CASE marker.l_value.tag = "MarkerEnvVersion" -> normalize_version_key_left(marker)
      [] marker.l_value.tag = "MarkerEnvString" -> normalize_string_key_left(marker)
      [] marker.l_value.tag = "Extra" -> normalize_extra_left(marker)
      [] marker.l_value.tag = "QuotedString" -> normalize_quoted_left(marker)

(***************************************************************************)
(* marker_intersection.rs                                                  *)
(***************************************************************************)
\* is_disjoint_marker_expression on two string-key canonical forms.
is_disjoint_marker_env_string(left, right) ==
    LET left_marker_value == left.marker_value
        right_marker_value == right.marker_value
        disjoint_operators ==
            \/ left.operator = "NotEqual" /\ right.operator = "Equal"
            \/ left.operator = "Equal" /\ right.operator = "NotEqual"
    IN  IF get_marker(left_marker_value) # get_marker(right_marker_value)
        THEN FALSE
        ELSE IF /\ left.operator = "Equal"
                /\ right.operator = "Equal"
                /\ get_value(left_marker_value) # get_value(right_marker_value)
        THEN TRUE
        ELSE IF /\ get_marker(left_marker_value) = get_marker(right_marker_value)
                /\ get_value(left_marker_value) = get_value(right_marker_value)
                /\ disjoint_operators
        THEN TRUE
        ELSE FALSE

\* A comparison of two extra canonical forms that takes two == with
\* different values for disjoint, as the comparison of string keys does.
is_disjoint_extra_as_string_key(left, right) ==
    \/ left.operator = "Equal" /\ right.operator = "Equal" /\ left.value # right.value
    \/ /\ left.value = right.value
       /\ \/ left.operator = "NotEqual" /\ right.operator = "Equal"
          \/ left.operator = "Equal" /\ right.operator = "NotEqual"

\* is_disjoint_marker_expression on two extra canonical forms.
is_disjoint_extra(left, right) ==
    LET disjoint_operators ==
            \/ left.operator = "NotEqual" /\ right.operator = "Equal"
            \/ left.operator = "Equal" /\ right.operator = "NotEqual"
    IN  left.value = right.value /\ disjoint_operators

\* A match that compares the specifiers of two version constraints without
\* looking at their fields.
is_disjoint_normalized_any_field(left, right) ==
    CASE left.type = "MarkerEnvVersion" /\ right.type = "MarkerEnvVersion" ->
           is_disjoint_version_specifiers(left.version_specifiers,
                                          right.version_specifiers)
      [] left.type = "MarkerEnvString" /\ right.type = "MarkerEnvString" ->
           is_disjoint_marker_env_string(left, right)
      [] left.type = "Extra" /\ right.type = "Extra" ->
           is_disjoint_extra(left, right)
      [] OTHER -> FALSE

\* The match of is_disjoint_marker_expression on the two canonical forms.
is_disjoint_normalized(left, right) ==
    CASE left.type = "MarkerEnvVersion" /\ right.type = "MarkerEnvVersion" ->
           /\ left.field = right.field
           /\ is_disjoint_version_specifiers(left.version_specifiers,
                                             right.version_specifiers)
      [] left.type = "MarkerEnvString" /\ right.type = "MarkerEnvString" ->
           is_disjoint_marker_env_string(left, right)
      [] left.type = "Extra" /\ right.type = "Extra" ->
           is_disjoint_extra(left, right)
      [] OTHER -> FALSE

\* A match that takes an atom without canonical form for disjoint with every
\* atom.
is_disjoint_unless_normalized(normalized_left, normalized_right) ==
    IF normalized_left.result = None \/ normalized_right.result = None
    THEN Reported(TRUE, normalized_left.warnings \o normalized_right.warnings)
    ELSE Reported(is_disjoint_normalized(unwrap(normalized_left.result),
                                         unwrap(normalized_right.result)),
                  normalized_left.warnings \o normalized_right.warnings)

\* is_disjoint_marker_expression once both atoms went through
\* normalize_marker_expression.
is_disjoint_if_normalized(normalized_left, normalized_right) ==
    IF normalized_left.result = None \/ normalized_right.result = None
    THEN Reported(FALSE, normalized_left.warnings \o normalized_right.warnings)
    ELSE Reported(is_disjoint_normalized(unwrap(normalized_left.result),
                                         unwrap(normalized_right.result)),
                  normalized_left.warnings \o normalized_right.warnings)

\* fn is_disjoint_marker_expression: both atoms are normalized, the left one
\* first, and false is returned when one of them has no canonical form.
is_disjoint_marker_expression(left, right) ==
    is_disjoint_if_normalized(normalize_marker_expression(left),
                              normalize_marker_expression(right))

\* `.into_iter().map(MarkerTree::Expression).collect()`
expressions(and) == [i \in 1..Len(and) |-> Expression(and[i])]

\* An into_marker_tree that builds an Or of the atoms of a single conjunction.
into_marker_tree_or_of_atoms(self) ==
    IF Len(self) = 1
    THEN IF Len(self[1]) = 1 THEN Expression(self[1][1])
         ELSE Or(expressions(self[1]))
    ELSE Or([i \in 1..Len(self) |-> And(expressions(self[i]))])

\* MarkerTreeDnf::into_marker_tree
into_marker_tree(self) ==
    IF Len(self) = 1
    THEN IF Len(self[1]) = 1 THEN Expression(self[1][1])
         ELSE And(expressions(self[1]))
    ELSE Or([i \in 1..Len(self) |-> And(expressions(self[i]))])

\* Vec::contains
vec_contains(vec, x) == \E i \in 1..Len(vec) : vec[i] = x

\* A push that does not look whether `vec` holds x already.
push_always(vec, x) == Append(vec, x)

\* `if !vec.contains(&x) { vec.push(x); }`
push_unique(vec, x) == IF vec_contains(vec, x) THEN vec ELSE Append(vec, x)

\* A loop pushing each of `items`, whether `vec` holds it or not.
extend_always(vec, items) == vec \o items

\* The loop pushing each of `items` that `vec` does not hold yet.
RECURSIVE extend_unique(_, _)
extend_unique(vec, items) ==
    IF items = <<>> THEN vec
    ELSE extend_unique(push_unique(vec, Head(items)), Tail(items))

\* The stable sort of a vec by its sort keys: `ordered` holds the pairs of
\* positions <<i, j>>, i < j, where the key of vec[i] is not greater than the
\* key of vec[j], and elements of equal keys keep their order.  Each element
\* in turn is inserted behind the elements before it whose key is not greater.
stable_sort(vec, ordered) ==
    LET insert(order, k) ==
            LET kept == Cardinality({j \in 1..Len(order) :
                                        <<order[j], k>> \in ordered})
            IN  SubSeq(order, 1, kept) \o <<k>> \o SubSeq(order, kept + 1, Len(order))
        order[k \in 0..Len(vec)] ==
            IF k = 0 THEN <<>> ELSE insert(order[k - 1], k)
        positions == order[Len(vec)]
        sorted[r \in 0..Len(vec)] ==
            IF r = 0 THEN <<>> ELSE Append(sorted[r - 1], vec[positions[r]])
    IN  sorted[Len(vec)]

\* The pairs of positions i < j of a vec of n elements.
ascending_pairs(n) == {pair \in (1..n) \X (1..n) : pair[1] < pair[2]}

\* The sort keys `entry.to_string()` of the atoms of a clause.
RECURSIVE to_strings(_)
to_strings(and_accumulator) ==
    IF and_accumulator = <<>> THEN <<>>
    ELSE <<to_string(Head(and_accumulator))>> \o to_strings(Tail(and_accumulator))

\* `and_accumulator.sort_by_key(|entry| entry.to_string())`
sort_by_to_string(and_accumulator) ==
    LET keys == to_strings(and_accumulator)
    IN  stable_sort(and_accumulator,
                    {pair \in ascending_pairs(Len(and_accumulator)) :
                        str_cmp(keys[pair[1]], keys[pair[2]]) # Greater})

\* Ord for (usize, String)
len_and_debug_cmp(a, b) ==
    IF a[1] # b[1] THEN cmp_int(a[1], b[1]) ELSE str_cmp(a[2], b[2])

\* The sort keys `(entry.len(), format!("{:?}", entry))` of the clauses of a
\* DNF.
RECURSIVE len_and_debugs(_)
len_and_debugs(current) ==
    IF current = <<>> THEN <<>>
    ELSE <<<<Len(Head(current)), vec_debug(Head(current))>>>>
             \o len_and_debugs(Tail(current))

\* A sort of the clauses by their debug form alone.
sort_by_debug(current) ==
    LET keys == len_and_debugs(current)
    IN  stable_sort(current,
                    {pair \in ascending_pairs(Len(current)) :
                        str_cmp(keys[pair[1]][2], keys[pair[2]][2]) # Greater})

\* `current.sort_by_key(|entry| (entry.len(), format!("{:?}", entry)))`
sort_by_len_and_debug(current) ==
    LET keys == len_and_debugs(current)
    IN  stable_sort(current,
                    {pair \in ascending_pairs(Len(current)) :
                        len_and_debug_cmp(keys[pair[1]], keys[pair[2]]) # Greater})

\* The k-th pair (left_marker, right_marker) the nested `any` of
\* is_false_clause visits in a clause of n atoms.
pair_at(n, k) == <<((k - 1) \div n) + 1, ((k - 1) % n) + 1>>

\* The nested `any` of is_false_clause from the k-th pair on: it stops at the
\* first disjoint pair.
RECURSIVE any_disjoint(_, _, _)

\* The nested iteration as `all`: it stops at the first pair that is not
\* disjoint.
all_disjoint_at(and_accumulator, k, reported, disjoint) ==
    IF ~disjoint.result
    THEN Reported(FALSE, reported \o disjoint.warnings)
    ELSE any_disjoint(and_accumulator, k + 1, reported \o disjoint.warnings)

\* The nested `any` at the k-th pair, whose atoms gave `disjoint`.
any_disjoint_at(and_accumulator, k, reported, disjoint) ==
    IF disjoint.result
    THEN Reported(TRUE, reported \o disjoint.warnings)
    ELSE any_disjoint(and_accumulator, k + 1, reported \o disjoint.warnings)

any_disjoint(and_accumulator, k, reported) ==
    IF k > Len(and_accumulator) * Len(and_accumulator)
    THEN Reported(FALSE, reported)
    ELSE any_disjoint_at(
             and_accumulator, k, reported,
             is_disjoint_marker_expression(
                 and_accumulator[pair_at(Len(and_accumulator), k)[1]],
                 and_accumulator[pair_at(Len(and_accumulator), k)[2]]))

\* is_false_clause: some pair of atoms of the clause, an atom with itself
\* included, is disjoint.
is_false_clause(and_accumulator) == any_disjoint(and_accumulator, 1, <<>>)

\* The loops over `current` and `entry_dnf` in the And case, from the k-th pair
\* (left_or, right_or) on.
RECURSIVE combine(_, _, _, _, _)

\* The end of the loop body: the clause is pushed to `next` unless it is a
\* false clause or `next` holds it.
push_clause(current, entry_dnf, k, next, reported, and_accumulator, false_clause) ==
    combine(current, entry_dnf, k + 1,
            IF false_clause.result THEN next
            ELSE push_unique(next, and_accumulator),
            reported \o false_clause.warnings)

\* The loop body from is_false_clause on, for the sorted clause of the k-th
\* pair.
check_clause(current, entry_dnf, k, next, reported, and_accumulator) ==
    push_clause(current, entry_dnf, k, next, reported, and_accumulator,
                is_false_clause(and_accumulator))

combine(current, entry_dnf, k, next, reported) ==
    IF k > Len(current) * Len(entry_dnf) THEN Reported(next, reported)
    ELSE check_clause(
             current, entry_dnf, k, next, reported,
             sort_by_to_string(
                 extend_unique(
                     extend_unique(<<>>, current[((k - 1) \div Len(entry_dnf)) + 1]),
                     entry_dnf[((k - 1) % Len(entry_dnf)) + 1])))

RECURSIVE marker_dnf_as_vec(_)

\* The loop over the children of an And node.
RECURSIVE fold_and(_, _, _)

\* `current = next`, and on to the next child.
fold_next(entries, reported, combined) ==
    fold_and(combined.result, Tail(entries), reported \o combined.warnings)

\* The loop body for a child whose DNF is `entry_dnf`: an empty `current`
\* takes the DNF of the child, any other is combined with it.
fold_entry(current, entries, reported, entry_dnf) ==
    IF current = <<>>
    THEN fold_and(entry_dnf.result, Tail(entries), reported \o entry_dnf.warnings)
    ELSE fold_next(entries, reported \o entry_dnf.warnings,
                   combine(current, entry_dnf.result, 1, <<>>, <<>>))

fold_and(current, entries, reported) ==
    IF entries = <<>> THEN Reported(current, reported)
    ELSE fold_entry(current, entries, reported, marker_dnf_as_vec(Head(entries)))

\* The loop over the children of an Or node.
RECURSIVE fold_or(_, _, _)

\* The loop body for a child whose DNF is `dnf`.
flatten_entry(flattened, entries, reported, dnf) ==
    fold_or(extend_unique(flattened, dnf.result), Tail(entries),
            reported \o dnf.warnings)

fold_or(flattened, entries, reported) ==
    IF entries = <<>> THEN Reported(flattened, reported)
    ELSE flatten_entry(flattened, entries, reported, marker_dnf_as_vec(Head(entries)))

\* The final sort of either case of marker_dnf_as_vec.
sorted_dnf(folded) == Reported(sort_by_len_and_debug(folded.result), folded.warnings)

\* fn marker_dnf_as_vec: the DNF, a sequence of conjunctions (sequences of
\* atoms), and the warnings reported.
marker_dnf_as_vec(marker) ==
    CASE marker.kind = "Expression" -> Reported(<<<<marker.expr>>>>, <<>>)
      [] marker.kind = "And" -> sorted_dnf(fold_and(<<>>, marker.children, <<>>))
      [] marker.kind = "Or" -> sorted_dnf(fold_or(<<>>, marker.children, <<>>))

\* `.is_empty()` of a DNF.
dnf_is_empty(dnf) == Reported(dnf.result = <<>>, dnf.warnings)

\* fn is_disjoint_marker_tree
is_disjoint_marker_tree(left, right) ==
    dnf_is_empty(marker_dnf_as_vec(And(<<left, right>>)))

(***************************************************************************)
(* What pep508_rs says a marker means: MarkerTree::evaluate in an          *)
(* environment env, a record of the value of each version key (version),   *)
(* of each string key (string) and of the set of active extras (extras).   *)
(* It is the reference the disjointness of markers is compared with; no    *)
(* function of the crate computes it.                                      *)
(***************************************************************************)
compare_strings(operator, l_string, r_string) ==
    CASE operator = "Equal" -> l_string = r_string
      [] operator = "NotEqual" -> l_string # r_string
      [] operator = "GreaterThan" -> str_cmp(l_string, r_string) = Greater
      [] operator = "GreaterEqual" -> str_cmp(l_string, r_string) # Less
      [] operator = "LessThan" -> str_cmp(l_string, r_string) = Less
      [] operator = "LessEqual" -> str_cmp(l_string, r_string) # Greater
      [] operator = "TildeEqual" -> FALSE
      [] operator = "In" -> str_contains(r_string, l_string)
      [] operator = "NotIn" -> ~str_contains(r_string, l_string)

evaluate_extra(operator, value, env) ==
    CASE operator = "Equal" -> value \in env.extras
      [] operator = "NotEqual" -> value \notin env.extras
      [] OTHER -> FALSE

\* `key OP "version"`: the version of the environment satisfies the specifier.
evaluate_version_key_left(expr, env) ==
    LET parsed == from_str_star(expr.r_value.value)
        operator == to_pep440_operator(expr.operator)
        specifier == new_specifier(unwrap(operator), unwrap(parsed)[1],
                                   unwrap(parsed)[2])
    IN  /\ expr.r_value.tag = "QuotedString"
        /\ parsed # None
        /\ operator # None
        /\ specifier # None
        /\ contains(unwrap(specifier), env.version[expr.l_value.key])

\* `"version" OP key`: the quoted version satisfies the specifier made of the
\* operator and the version of the environment.
evaluate_version_key_right(expr, env) ==
    LET l_version == from_str(expr.l_value.value)
        operator == to_pep440_operator(expr.operator)
        specifier == new_specifier(unwrap(operator),
                                   env.version[expr.r_value.key], FALSE)
    IN  /\ l_version # None
        /\ operator # None
        /\ specifier # None
        /\ contains(unwrap(specifier), unwrap(l_version))

\* MarkerExpression::evaluate
evaluate_expression(expr, env) ==
    LET l == expr.l_value
        r == expr.r_value
    IN  CASE l.tag = "MarkerEnvVersion" -> evaluate_version_key_left(expr, env)
          [] l.tag = "MarkerEnvString" ->
               /\ r.tag = "QuotedString"
               /\ compare_strings(expr.operator, env.string[l.key], r.value)
          [] l.tag = "Extra" ->
               /\ r.tag = "QuotedString"
               /\ evaluate_extra(expr.operator, r.value, env)
          [] l.tag = "QuotedString" /\ r.tag = "MarkerEnvVersion" ->
               evaluate_version_key_right(expr, env)
          [] l.tag = "QuotedString" /\ r.tag = "MarkerEnvString" ->
               compare_strings(expr.operator, l.value, env.string[r.key])
          [] l.tag = "QuotedString" /\ r.tag = "Extra" ->
               evaluate_extra(expr.operator, l.value, env)
          [] l.tag = "QuotedString" /\ r.tag = "QuotedString" -> FALSE

\* MarkerTree::evaluate: And is all of the children, Or is any of them.
RECURSIVE evaluate(_, _)
evaluate(marker, env) ==
    CASE marker.kind = "Expression" -> evaluate_expression(marker.expr, env)
      [] marker.kind = "And" ->
           \A i \in 1..Len(marker.children) : evaluate(marker.children[i], env)
      [] marker.kind = "Or" ->
           \E i \in 1..Len(marker.children) : evaluate(marker.children[i], env)

\* The atoms of a marker tree.
RECURSIVE atoms_of(_)
atoms_of(marker) ==
    IF marker.kind = "Expression" THEN {marker.expr}
    ELSE UNION {atoms_of(marker.children[i]) : i \in 1..Len(marker.children)}

(***************************************************************************)
(* Marker trees by their number of leaves.  A shape is a marker tree whose *)
(* leaves hold the position of an atom in a sequence of atoms instead of   *)
(* the atom.                                                               *)
(***************************************************************************)
\* The number of leaves of a shape.
RECURSIVE leaves_of(_)
leaves_of(shape) ==
    IF shape.kind = "Expression" THEN 1
    ELSE LET counted[i \in 0..Len(shape.children)] ==
                 IF i = 0 THEN 0
                 ELSE counted[i - 1] + leaves_of(shape.children[i])
         IN  counted[Len(shape.children)]

\* The sequences of shapes of `shapes` that have n leaves together.
RECURSIVE Forests(_, _)
Forests(shapes, n) ==
    IF n = 0 THEN {<<>>}
    ELSE UNION {{<<shape>> \o rest :
                    shape \in {shape \in shapes : leaves_of(shape) = first},
                    rest \in Forests(shapes, n - first)} :
                first \in 1..n}

\* The And and Or nodes of at most `max` leaves over children of `shapes`.
Nodes(shapes, max) ==
    UNION {{And(children) : children \in Forests(shapes, n)}
               \cup {Or(children) : children \in Forests(shapes, n)} :
           n \in 1..max}

\* The leaves over the atoms 1 .. count.
ShapeLeaves(count) == {Expression(i) : i \in 1..count}

\* The shapes of at most `max` leaves over the atoms 1 .. count that are at
\* most one, two and three nodes deep.
Depth1(count, max) == ShapeLeaves(count) \cup Nodes(ShapeLeaves(count), max)

Depth2(count, max) == ShapeLeaves(count) \cup Nodes(Depth1(count, max), max)

Depth3(count, max) == ShapeLeaves(count) \cup Nodes(Depth2(count, max), max)

\* The marker tree of a shape: each leaf holds the atom at its position in
\* `exprs`.
RECURSIVE with_atoms(_, _)
with_atoms(shape, exprs) ==
    IF shape.kind = "Expression" THEN Expression(exprs[shape.expr])
    ELSE LET filled[i \in 0..Len(shape.children)] ==
                 IF i = 0 THEN <<>>
                 ELSE Append(filled[i - 1], with_atoms(shape.children[i], exprs))
         IN  [kind |-> shape.kind, children |-> filled[Len(shape.children)]]

(***************************************************************************)
(* marker_dnf_as_vec, called on one marker tree.                           *)
(***************************************************************************)
\* The atoms of the trees: two disjoint atoms on a string key and an atom on
\* a version key.
DnfAtoms ==
    <<(* os_name == "posix" *)
      MarkerExpression(MarkerEnvString("OsName"),
                       "Equal",
                       QuotedString(<<"p", "o", "s", "i", "x">>)),
      (* os_name == "nt" *)
      MarkerExpression(MarkerEnvString("OsName"),
                       "Equal",
                       QuotedString(<<"n", "t">>)),
      (* python_version >= "3.1" *)
      MarkerExpression(MarkerEnvVersion("PythonVersion"),
                       "GreaterEqual",
                       QuotedString(<<"3", ".", "1">>))>>

\* The trees at most two nodes deep of at most `max` leaves.
DnfTrees(max) ==
    {with_atoms(shape, DnfAtoms) : shape \in Depth2(Len(DnfAtoms), max)}

InitDnf ==
    /\ pc = "call"
    /\ fn = "marker_dnf_as_vec"
    /\ args \in {[marker |-> marker] : marker \in DnfTrees(MaxLeaves)}
    /\ ret = NoReturn
    /\ warnings = <<>>

CallMarkerDnfAsVec ==
    /\ pc = "call"
    /\ fn = "marker_dnf_as_vec"
    /\ LET dnf == marker_dnf_as_vec(args.marker)
       IN  /\ ret' = dnf.result
           /\ warnings' = dnf.warnings
    /\ pc' = "return"
    /\ UNCHANGED <<fn, args>>

NextDnf == CallMarkerDnfAsVec

SpecDnf == InitDnf /\ [][NextDnf]_vars

\* The atoms of the trees of copies of one atom: atoms on a string key, on a
\* version key and on the extra, one without canonical form, and one disjoint
\* from itself.
CopiedAtoms ==
    {(* os_name == "posix" *)
     MarkerExpression(MarkerEnvString("OsName"),
                      "Equal",
                      QuotedString(<<"p", "o", "s", "i", "x">>)),
     (* "nt" != os_name *)
     MarkerExpression(QuotedString(<<"n", "t">>),
                      "NotEqual",
                      MarkerEnvString("OsName")),
     (* python_version >= "3.1" *)
     MarkerExpression(MarkerEnvVersion("PythonVersion"),
                      "GreaterEqual",
                      QuotedString(<<"3", ".", "1">>)),
     (* extra == "test" *)
     MarkerExpression(Extra,
                      "Equal",
                      QuotedString(<<"t", "e", "s", "t">>)),
     (* "3.1" in python_version *)
     MarkerExpression(QuotedString(<<"3", ".", "1">>),
                      "In",
                      MarkerEnvVersion("PythonVersion")),
     (* "2" ~= python_version *)
     MarkerExpression(QuotedString(<<"2">>),
                      "TildeEqual",
                      MarkerEnvVersion("PythonVersion"))}

\* The trees at most three nodes deep of at most `max` leaves, every leaf the
\* same atom.
CopiesTrees(max) ==
    {with_atoms(shape, <<expr>>) :
        shape \in Depth3(1, max), expr \in CopiedAtoms}

InitDnfCopies ==
    /\ pc = "call"
    /\ fn = "marker_dnf_as_vec"
    /\ args \in {[marker |-> marker] : marker \in CopiesTrees(MaxCopies)}
    /\ ret = NoReturn
    /\ warnings = <<>>

SpecDnfCopies == InitDnfCopies /\ [][NextDnf]_vars

(***************************************************************************)
(* is_disjoint_marker_tree, called on two marker trees.                    *)
(***************************************************************************)
\* The atoms of the two trees: on string keys, on a version key and on the
\* extra, with the key on the left and with the literal on the left.
PairAtoms ==
    <<(* sys_platform == "darwin" *)
      MarkerExpression(MarkerEnvString("SysPlatform"),
                       "Equal",
                       QuotedString(<<"d", "a", "r", "w", "i", "n">>)),
      (* "linux" != sys_platform *)
      MarkerExpression(QuotedString(<<"l", "i", "n", "u", "x">>),
                       "NotEqual",
                       MarkerEnvString("SysPlatform")),
      (* os_name == "posix" *)
      MarkerExpression(MarkerEnvString("OsName"),
                       "Equal",
                       QuotedString(<<"p", "o", "s", "i", "x">>)),
      (* os_name == "nt" *)
      MarkerExpression(MarkerEnvString("OsName"),
                       "Equal",
                       QuotedString(<<"n", "t">>)),
      (* python_version == "3.1" *)
      MarkerExpression(MarkerEnvVersion("PythonVersion"),
                       "Equal",
                       QuotedString(<<"3", ".", "1">>)),
      (* "3.1" >= python_version *)
      MarkerExpression(QuotedString(<<"3", ".", "1">>),
                       "GreaterEqual",
                       MarkerEnvVersion("PythonVersion")),
      (* extra == "test" *)
      MarkerExpression(Extra,
                       "Equal",
                       QuotedString(<<"t", "e", "s", "t">>)),
      (* extra != "test" *)
      MarkerExpression(Extra,
                       "NotEqual",
                       QuotedString(<<"t", "e", "s", "t">>))>>

\* The trees of at most `max` leaves: an atom, or an And or Or node of atoms.
PairTrees(max) ==
    {with_atoms(shape, PairAtoms) : shape \in Depth1(Len(PairAtoms), max)}

InitDisjointMarkers ==
    /\ pc = "call"
    /\ fn = "is_disjoint_marker_tree"
    /\ args \in {[left |-> left, right |-> right] :
                    left \in PairTrees(MaxPairLeaves),
                    right \in PairTrees(MaxPairLeaves)}
    /\ ret = NoReturn
    /\ warnings = <<>>

CallIsDisjointMarkerTree ==
    /\ pc = "call"
    /\ fn = "is_disjoint_marker_tree"
    /\ LET disjoint == is_disjoint_marker_tree(args.left, args.right)
       IN  /\ ret' = disjoint.result
           /\ warnings' = disjoint.warnings
    /\ pc' = "return"
    /\ UNCHANGED <<fn, args>>

NextDisjointMarkers == CallIsDisjointMarkerTree

SpecDisjointMarkers == InitDisjointMarkers /\ [][NextDisjointMarkers]_vars

\* The environments the markers are evaluated in: python_version is 3.0 ..
\* 3.(MaxMinor + 1), each string key has two values, and the extra "test" is
\* active or not.
Environments ==
    {[version |-> [PythonVersion |-> python_version],
      string |-> [SysPlatform |-> sys_platform, OsName |-> os_name,
                  PlatformVersion |-> platform_version],
      extras |-> extras] :
        python_version \in {MkVersion(<<3, minor>>, 0) : minor \in 0..(MaxMinor + 1)},
        sys_platform \in {<<"l", "i", "n", "u", "x">>, <<"d", "a", "r", "w", "i", "n">>},
        os_name \in {<<"p", "o", "s", "i", "x">>, <<"n", "t">>},
        platform_version \in {<<"U", "b", "u", "n", "t", "u", " ", "2", "2">>,
                              <<"D", "e", "b", "i", "a", "n", " ", "1", "2">>},
        extras \in SUBSET {<<"t", "e", "s", "t">>}}

(***************************************************************************)
(* Properties of marker_dnf_as_vec and is_disjoint_marker_tree.            *)
(***************************************************************************)
\* What is_disjoint_marker_expression answers for two atoms, without the
\* warnings.
disjoint_atoms(x, y) == is_disjoint_marker_expression(x, y).result

\* The atom has a canonical form.
normalizable(expr) == normalize_marker_expression(expr).result # None

\* The tree is an And node whose children are all atoms.
conjunction_of_atoms(marker) ==
    /\ marker.kind = "And"
    /\ \A i \in 1..Len(marker.children) : marker.children[i].kind = "Expression"

\* The value of a tree when exactly the atoms of true_atoms are true: And is
\* all children, Or is some child.
RECURSIVE holds(_, _)
holds(marker, true_atoms) ==
    CASE marker.kind = "Expression" -> marker.expr \in true_atoms
      [] marker.kind = "And" ->
           \A i \in 1..Len(marker.children) : holds(marker.children[i], true_atoms)
      [] marker.kind = "Or" ->
           \E i \in 1..Len(marker.children) : holds(marker.children[i], true_atoms)

\* The value of a DNF when exactly the atoms of true_atoms are true: some
\* conjunction has all its atoms true.
dnf_holds(dnf, true_atoms) ==
    \E c \in 1..Len(dnf) : \A i \in 1..Len(dnf[c]) : dnf[c][i] \in true_atoms

\* No two atoms of true_atoms, an atom and itself included, are reported
\* disjoint.
consistent(true_atoms) ==
    \A x \in true_atoms : \A y \in true_atoms : ~disjoint_atoms(x, y)

\* C1: when is_disjoint_marker_tree(left, right) returns true, no environment
\* makes both left and right true, atoms with the literal on the left
\* included.
C1_DisjointMarkersNoFalsePositive ==
    (Returned("is_disjoint_marker_tree") /\ ret = TRUE)
        => \A env \in Environments :
               ~(evaluate(args.left, env) /\ evaluate(args.right, env))

\* C4: under every truth assignment to the atoms of the tree in which no two
\* atoms reported disjoint are both true, the tree is true if and only if
\* some conjunction of the DNF marker_dnf_as_vec returns has all its atoms
\* true.
C4_DnfPreservesMeaning ==
    Returned("marker_dnf_as_vec")
        => \A true_atoms \in SUBSET atoms_of(args.marker) :
               consistent(true_atoms)
                   => (holds(args.marker, true_atoms) <=> dnf_holds(ret, true_atoms))

\* C5: the DNF marker_dnf_as_vec returns has no two equal conjunctions, and
\* no conjunction of it holds the same atom at two positions or two atoms
\* that is_disjoint_marker_expression reports disjoint.
C5_DnfWithoutDuplicatesAndContradictions ==
    Returned("marker_dnf_as_vec")
        => /\ \A c \in 1..Len(ret) : \A d \in 1..Len(ret) :
                  c # d => ret[c] # ret[d]
           /\ \A c \in 1..Len(ret) :
                  \A i \in 1..Len(ret[c]) : \A j \in 1..Len(ret[c]) :
                      i # j => /\ ret[c][i] # ret[c][j]
                               /\ ~disjoint_atoms(ret[c][i], ret[c][j])

\* An And node among whose atoms two are reported disjoint has returned one
\* conjunction of several atoms: the conjunctions holding a disjoint pair
\* were dropped.
C5_Witness ==
    /\ Returned("marker_dnf_as_vec")
    /\ args.marker.kind = "And"
    /\ \E x \in atoms_of(args.marker) : \E y \in atoms_of(args.marker) :
           x # y /\ disjoint_atoms(x, y)
    /\ Len(ret) = 1
    /\ Len(ret[1]) > 1

\* C6: the DNF of an And node whose children are all atoms is empty when two
\* of its children are atoms reported disjoint, wherever they stand among the
\* children and however many other children there are.
C6_ContradictionYieldsEmptyDnf ==
    (/\ Returned("marker_dnf_as_vec")
     /\ conjunction_of_atoms(args.marker)
     /\ \E i \in 1..Len(args.marker.children) :
            \E j \in 1..Len(args.marker.children) :
                /\ i # j
                /\ disjoint_atoms(args.marker.children[i].expr,
                                  args.marker.children[j].expr))
        => ret = <<>>

\* C7: when left and right are both And nodes of atoms and some atom of left
\* is reported disjoint from some atom of right, is_disjoint_marker_tree
\* returns true for (left, right) and for (right, left).
C7_DisjointAtomsMakeConjunctionsDisjoint ==
    (/\ Returned("is_disjoint_marker_tree")
     /\ conjunction_of_atoms(args.left)
     /\ conjunction_of_atoms(args.right)
     /\ \E x \in atoms_of(args.left) : \E y \in atoms_of(args.right) :
            disjoint_atoms(x, y))
        => /\ ret = TRUE
           /\ is_disjoint_marker_tree(args.right, args.left).result

\* C8: the DNF of a tree whose leaves are all the same atom a, where a has a
\* canonical form and is not reported disjoint from itself, is the one
\* conjunction of the one atom a.
C8_CopiesCollapseToOneAtom ==
    Returned("marker_dnf_as_vec")
        => \A a \in atoms_of(args.marker) :
               (/\ atoms_of(args.marker) = {a}
                /\ normalizable(a)
                /\ ~disjoint_atoms(a, a))
                   => ret = <<<<a>>>>

\* An And node over an Or node of copies, MaxCopies leaves in all, of an atom
\* that has a canonical form and is not disjoint from itself, has returned.
C8_Witness ==
    /\ Returned("marker_dnf_as_vec")
    /\ args.marker.kind = "And"
    /\ \E i \in 1..Len(args.marker.children) :
           /\ args.marker.children[i].kind = "Or"
           /\ Len(args.marker.children[i].children) > 1
    /\ leaves_of(args.marker) = MaxCopies
    /\ \E a \in atoms_of(args.marker) :
           /\ atoms_of(args.marker) = {a}
           /\ normalizable(a)
           /\ ~disjoint_atoms(a, a)

(***************************************************************************)
(* is_disjoint_marker_expression, called on two atoms.                     *)
(***************************************************************************)
MarkerOperators ==
    {"Equal", "NotEqual", "GreaterThan", "GreaterEqual", "LessThan",
     "LessEqual", "TildeEqual", "In", "NotIn"}

\* The keys of the atoms: two version keys, two string keys and the extra.
MarkerKeys ==
    {MarkerEnvVersion("PythonVersion"), MarkerEnvVersion("PythonFullVersion"),
     MarkerEnvString("OsName"), MarkerEnvString("SysPlatform"), Extra}

\* The quoted strings of the atoms of a pair: two versions and a string that
\* is no version.
PairLiterals ==
    {QuotedString(<<"3", ".", "1">>), QuotedString(<<"2">>),
     QuotedString(<<"n", "t">>)}

\* The atoms of a pair: a key compared with a quoted string, on either side
\* and with every operator, and two keys or two quoted strings compared
\* with ==.
PairExpressions ==
    UNION {{MarkerExpression(key, operator, quoted),
            MarkerExpression(quoted, operator, key)} :
               key \in MarkerKeys, operator \in MarkerOperators,
               quoted \in PairLiterals}
        \cup {MarkerExpression(l_value, "Equal", r_value) :
                 l_value \in MarkerKeys, r_value \in MarkerKeys}
        \cup {MarkerExpression(l_value, "Equal", r_value) :
                 l_value \in PairLiterals, r_value \in PairLiterals}

InitDisjointExpressions ==
    /\ pc = "call"
    /\ fn = "is_disjoint_marker_expression"
    /\ args \in {[left |-> left, right |-> right] :
                    left \in PairExpressions, right \in PairExpressions}
    /\ ret = NoReturn
    /\ warnings = <<>>

CallIsDisjointMarkerExpression ==
    /\ pc = "call"
    /\ fn = "is_disjoint_marker_expression"
    /\ LET disjoint == is_disjoint_marker_expression(args.left, args.right)
       IN  /\ ret' = disjoint.result
           /\ warnings' = disjoint.warnings
    /\ pc' = "return"
    /\ UNCHANGED <<fn, args>>

NextDisjointExpressions == CallIsDisjointMarkerExpression

SpecDisjointExpressions ==
    InitDisjointExpressions /\ [][NextDisjointExpressions]_vars

\* The canonical form of an atom that has one.
normalized(expr) == unwrap(normalize_marker_expression(expr).result)

\* C11: is_disjoint_marker_expression(left, right) returns false when left
\* or right has no canonical form, and a clause of the two atoms is a false
\* clause only if the atom that has a canonical form makes it one by itself.
C11_SoftInvalidAtomIsNeverDisjoint ==
    (Returned("is_disjoint_marker_expression")
         /\ (~normalizable(args.left) \/ ~normalizable(args.right)))
        => /\ ret = FALSE
           /\ ~normalizable(args.left)
                  => is_false_clause(<<args.left, args.right>>).result
                         = is_false_clause(<<args.right>>).result
           /\ ~normalizable(args.right)
                  => is_false_clause(<<args.left, args.right>>).result
                         = is_false_clause(<<args.left>>).result

\* An atom without canonical form was compared with an atom that has one.
C11_Witness ==
    /\ Returned("is_disjoint_marker_expression")
    /\ ~normalizable(args.left)
    /\ normalizable(args.right)
    /\ ret = FALSE
    /\ warnings # <<>>

\* Both atoms have a canonical form, and the two forms are of the given type.
both_normalize_to(left, right, type) ==
    /\ normalizable(left)
    /\ normalizable(right)
    /\ normalized(left).type = type
    /\ normalized(right).type = type

\* One of the two operators is == and the other is !=.
equal_and_not_equal(left_operator, right_operator) ==
    \/ left_operator = "Equal" /\ right_operator = "NotEqual"
    \/ left_operator = "NotEqual" /\ right_operator = "Equal"

\* C12: for two atoms that both normalize to string-key atoms,
\* is_disjoint_marker_expression returns true exactly when the keys are the
\* same and either both operators are == and the values differ, or one
\* operator is ==, the other is != and the values are equal; so it returns
\* false for different keys and whenever an atom has the operator <, <=, >,
\* >=, in or not in.
C12_StringKeyAtomsDisjoint ==
    (Returned("is_disjoint_marker_expression")
         /\ both_normalize_to(args.left, args.right, "MarkerEnvString"))
        => LET left == normalized(args.left).marker_value
               right == normalized(args.right).marker_value
               same_key == get_marker(left) = get_marker(right)
               same_value == get_value(left) = get_value(right)
           IN  /\ ret = (/\ same_key
                         /\ \/ /\ args.left.operator = "Equal"
                               /\ args.right.operator = "Equal"
                               /\ ~same_value
                            \/ /\ equal_and_not_equal(args.left.operator,
                                                      args.right.operator)
                               /\ same_value)
               /\ ~same_key => ret = FALSE
               /\ {args.left.operator, args.right.operator}
                      \cap {"LessThan", "LessEqual", "GreaterThan", "GreaterEqual",
                            "In", "NotIn"} # {}
                      => ret = FALSE

\* The same with the operators of the canonical forms in the place of the
\* operators of the atoms.
StringKeyFormsDisjoint ==
    (Returned("is_disjoint_marker_expression")
         /\ both_normalize_to(args.left, args.right, "MarkerEnvString"))
        => LET left == normalized(args.left)
               right == normalized(args.right)
               same_key == get_marker(left.marker_value) = get_marker(right.marker_value)
               same_value == get_value(left.marker_value) = get_value(right.marker_value)
           IN  ret = (/\ same_key
                      /\ \/ /\ left.operator = "Equal"
                            /\ right.operator = "Equal"
                            /\ ~same_value
                         \/ /\ equal_and_not_equal(left.operator, right.operator)
                            /\ same_value)

\* The quoted string of an atom that compares the extra with a quoted string.
extra_value(expr) ==
    IF expr.l_value.tag = "QuotedString" THEN expr.l_value.value
    ELSE expr.r_value.value

\* C13: for two atoms that both normalize to extra atoms,
\* is_disjoint_marker_expression returns true if and only if the values are
\* equal and one operator is == while the other is !=; two atoms with ==
\* and different values are not reported disjoint.
C13_ExtraAtomsDisjoint ==
    (Returned("is_disjoint_marker_expression")
         /\ both_normalize_to(args.left, args.right, "Extra"))
        => /\ ret = (/\ extra_value(args.left) = extra_value(args.right)
                     /\ equal_and_not_equal(args.left.operator, args.right.operator))
           /\ (/\ args.left.operator = "Equal"
               /\ args.right.operator = "Equal"
               /\ extra_value(args.left) # extra_value(args.right))
                  => ret = FALSE

\* An atom with the extra on the left and an atom with the extra on the
\* right, one with == and one with != on the same value, were reported
\* disjoint.
C13_Witness ==
    /\ Returned("is_disjoint_marker_expression")
    /\ both_normalize_to(args.left, args.right, "Extra")
    /\ args.left.l_value = Extra
    /\ args.right.r_value = Extra
    /\ ret = TRUE

\* C14: for two atoms that normalize to version constraints,
\* is_disjoint_marker_expression returns what is_disjoint_version_specifiers
\* returns for their specifier sets when the version keys are the same, and
\* false when the keys differ; for two atoms whose canonical forms are of
\* different types (version, string, extra) it returns false.
C14_VersionAtomsDelegateToSpecifiers ==
    (Returned("is_disjoint_marker_expression")
         /\ normalizable(args.left) /\ normalizable(args.right))
        => LET left == normalized(args.left)
               right == normalized(args.right)
           IN  /\ (left.type = "MarkerEnvVersion" /\ right.type = "MarkerEnvVersion")
                      => ret = IF left.field = right.field
                               THEN is_disjoint_version_specifiers(
                                        left.version_specifiers,
                                        right.version_specifiers)
                               ELSE FALSE
               /\ left.type # right.type => ret = FALSE

\* Two atoms on the same version key, the key on different sides, were
\* reported disjoint.
C14_Witness ==
    /\ Returned("is_disjoint_marker_expression")
    /\ both_normalize_to(args.left, args.right, "MarkerEnvVersion")
    /\ args.left.l_value = args.right.r_value
    /\ ret = TRUE

(***************************************************************************)
(* normalize_marker_expression, called on one atom.                        *)
(***************************************************************************)
\* The quoted strings of the atom: versions, one with a trailing wildcard,
\* one with an epoch and one with a local part, and a string that is no
\* version.
NormalizeLiterals ==
    {QuotedString(<<"3", ".", "1">>), QuotedString(<<"2">>),
     QuotedString(<<"3", ".", "1", ".", "*">>), QuotedString(<<"1", "!", "2">>),
     QuotedString(<<"2", "+", "x">>), QuotedString(<<"n", "t">>)}

\* Every atom of a left value, an operator and a right value.
NormalizeExpressions ==
    {MarkerExpression(l_value, operator, r_value) :
        l_value \in MarkerKeys \cup NormalizeLiterals,
        operator \in MarkerOperators,
        r_value \in MarkerKeys \cup NormalizeLiterals}

InitNormalize ==
    /\ pc = "call"
    /\ fn = "normalize_marker_expression"
    /\ args \in {[marker |-> marker] : marker \in NormalizeExpressions}
    /\ ret = NoReturn
    /\ warnings = <<>>

CallNormalizeMarkerExpression ==
    /\ pc = "call"
    /\ fn = "normalize_marker_expression"
    /\ LET normalized_marker == normalize_marker_expression(args.marker)
       IN  /\ ret' = normalized_marker.result
           /\ warnings' = normalized_marker.warnings
    /\ pc' = "return"
    /\ UNCHANGED <<fn, args>>

NextNormalize == CallNormalizeMarkerExpression

SpecNormalize == InitNormalize /\ [][NextNormalize]_vars

\* C15: normalize_marker_expression returns, for every atom, a canonical
\* form or None, and when it returns None it has called the reporter exactly
\* once, with the atom.
C15_NormalizeReportsOnceForNone ==
    Returned("normalize_marker_expression")
        => /\ \/ ret = None
              \/ /\ Len(ret) = 1
                 /\ unwrap(ret).type \in {"MarkerEnvVersion", "MarkerEnvString", "Extra"}
           /\ ret = None
                  => /\ Len(warnings) = 1
                     /\ warnings[1].marker = args.marker

\* An atom on a version key was not normalized: its quoted string is no
\* version, or its operator is none of PEP 440.
C15_Witness ==
    /\ Returned("normalize_marker_expression")
    /\ args.marker.l_value.tag = "MarkerEnvVersion"
    /\ args.marker.r_value.tag = "QuotedString"
    /\ ret = None
    /\ Len(warnings) = 1
    /\ warnings[1].kind = "Pep440Error"

\* The versions a version key may have: 2 and 3, alone and with a second
\* release number 0 .. MaxMinor + 1.
KeyVersions ==
    {MkVersion(<<major>>, 0) : major \in 2..3}
        \cup {MkVersion(<<major, minor>>, 0) :
                 major \in 2..3, minor \in 0..(MaxMinor + 1)}

\* The comparison `"v" OP x` of pep508_rs for a version x of the key on the
\* right: v satisfies the specifier of the operator and of x.
holds_for(expr, x) ==
    evaluate_version_key_right(expr, [version |-> [k \in {expr.r_value.key} |-> x]])

\* C20: for an atom `"v" OP version_key` with OP one of ==, !=, >, >=, <, <=
\* and ~=, a version x satisfies the specifier set normalization produces if
\* and only if `v OP x` holds.
C20_InvertedSpecifiersKeepTheMeaning ==
    (Returned("normalize_marker_expression")
         /\ args.marker.l_value.tag = "QuotedString"
         /\ args.marker.r_value.tag = "MarkerEnvVersion"
         /\ args.marker.operator \in MarkerOperators \ {"In", "NotIn"}
         /\ ret # None)
        => \A x \in KeyVersions :
               (\A i \in 1..Len(unwrap(ret).version_specifiers) :
                    contains(unwrap(ret).version_specifiers[i], x))
                   <=> holds_for(args.marker, x)

(***************************************************************************)
(* helper.rs: filename_to_version, in the two crates that have it.  A      *)
(* function that may log returns its result together with the events it    *)
(* logged.                                                                 *)
(***************************************************************************)
\* PyResult<T>
Ok(value) == [tag |-> "Ok", value |-> value]

Err(error) == [tag |-> "Err", error |-> error]

\* A panic of the thread.
Panic == [tag |-> "Panic"]

\* tracing's warn!
Warn(message) == [level |-> "WARN", message |-> message]

\* str::starts_with
starts_with(s, prefix) ==
    Len(prefix) <= Len(s) /\ SubSeq(s, 1, Len(prefix)) = prefix

\* str::ends_with
ends_with(s, suffix) ==
    Len(suffix) <= Len(s) /\ SubSeq(s, Len(s) - Len(suffix) + 1, Len(s)) = suffix

\* str::strip_suffix
strip_suffix(s, suffix) ==
    IF ends_with(s, suffix) THEN Some(SubSeq(s, 1, Len(s) - Len(suffix)))
    ELSE None

\* The character class [-_.] of NORMALIZER.
NormalizerClass == {"-", "_", "."}

\* NORMALIZER.replace_all(name, "-"): each longest run of [-_.] becomes one -
RECURSIVE replace_all(_)
replace_all(name) ==
    IF name = <<>> THEN <<>>
    ELSE IF Head(name) \notin NormalizerClass
    THEN <<Head(name)>> \o replace_all(Tail(name))
    ELSE IF Len(name) >= 2 /\ name[2] \in NormalizerClass
    THEN replace_all(Tail(name))
    ELSE <<"-">> \o replace_all(Tail(name))

\* str::to_lowercase, on ASCII
to_lowercase(s) ==
    [i \in 1..Len(s) |->
        IF Byte("A") <= Byte(s[i]) /\ Byte(s[i]) <= Byte("Z")
        THEN Ascii[Byte(s[i]) + 32 - 31]
        ELSE s[i]]

\* fn normalize
normalize(name) == to_lowercase(replace_all(name))

\* The suffixes of a source distribution, in the order they are tried.
SdistSuffixes ==
    <<<<".", "t", "a", "r", ".", "g", "z">>,
      <<".", "z", "i", "p">>,
      <<".", "t", "a", "r", ".", "b", "z", "2">>,
      <<".", "t", "g", "z">>>>

\* `.filter_map(|suffix| filename.strip_suffix(suffix)).next()`
first_basename(filename, k) ==
    IF \E i \in k..Len(SdistSuffixes) : ends_with(filename, SdistSuffixes[i])
    THEN strip_suffix(filename,
                      SdistSuffixes[CHOOSE i \in k..Len(SdistSuffixes) :
                                        /\ ends_with(filename, SdistSuffixes[i])
                                        /\ \A j \in k..(i - 1) :
                                               ~ends_with(filename, SdistSuffixes[j])])
    ELSE None

\* The .whl case: the second of five or six parts between the -
wheel_version(parts) ==
    IF Len(parts) \in {5, 6} THEN Reported(Ok(Some(parts[2])), <<>>)
    ELSE Reported(Err("Invalid wheel filename: {}"), <<>>)

\* `&basename[file_prefix.len()..]`: a slice from beyond the end panics.
slice_from(basename, start) ==
    IF start > Len(basename) THEN Reported(Panic, <<>>)
    ELSE Reported(Ok(Some(SubSeq(basename, start + 1, Len(basename)))), <<>>)

\* The source distribution case of pypi_types_crate.
sdist_version(basename, file_prefix) ==
    IF starts_with(normalize(basename), file_prefix)
    THEN slice_from(basename, Len(file_prefix))
    ELSE Reported(Ok(None),
                  <<Warn("Name mismatch: Expected '{}' to start with '{}', but it was '{}'")>>)

\* fn filename_to_version of pypi_types_crate
filename_to_version(package_name, filename) ==
    IF ends_with(filename, <<".", "w", "h", "l">>)
    THEN wheel_version(split(filename, "-"))
    ELSE IF first_basename(filename, 1) # None
    THEN sdist_version(unwrap(first_basename(filename, 1)),
                       normalize(package_name) \o <<"-">>)
    ELSE IF \E suffix \in {<<".", "e", "x", "e">>, <<".", "m", "s", "i">>,
                           <<".", "e", "g", "g">>, <<".", "r", "p", "m">>,
                           <<".", "d", "m", "g">>} :
                ends_with(filename, suffix)
    THEN Reported(Ok(None), <<>>)
    ELSE Reported(Ok(None), <<Warn("Filename with unexpected extension: {}")>>)

\* The source distribution case of pypi_types.
pypi_types_sdist_version(basename, file_prefix) ==
    IF starts_with(normalize(basename), file_prefix)
    THEN slice_from(basename, Len(file_prefix))
    ELSE Reported(Err("Name mismatch: Expected '{}' to start with '{}'"), <<>>)

\* fn filename_to_version of pypi_types
pypi_types_filename_to_version(package_name, filename) ==
    IF ends_with(filename, <<".", "w", "h", "l">>)
    THEN wheel_version(split(filename, "-"))
    ELSE IF first_basename(filename, 1) # None
    THEN pypi_types_sdist_version(unwrap(first_basename(filename, 1)),
                                  normalize(package_name) \o <<"-">>)
    ELSE IF \E suffix \in {<<".", "e", "x", "e">>, <<".", "m", "s", "i">>,
                           <<".", "e", "g", "g">>, <<".", "r", "p", "m">>} :
                ends_with(filename, suffix)
    THEN Reported(Ok(None), <<>>)
    ELSE Reported(Ok(None), <<Warn("Filename with unexpected extension: {}")>>)

(***************************************************************************)
(* filename_to_version, called on a project name and a filename.           *)
(***************************************************************************)
\* The runs of - and _ of at most `max` characters.
Runs(max) == UNION {[1..n -> {"-", "_"}] : n \in 1..max}

\* The project names: a letter, or two letters with a run between them.
Projects(max) ==
    {<<"a">>, <<"B">>}
        \cup {<<letter>> \o run \o <<"b">> : letter \in {"a", "B"}, run \in Runs(max)}

\* The basenames: a project name, alone or followed by a run and a version.
Basenames(max) ==
    Projects(max)
        \cup {stem \o run \o version :
                 stem \in Projects(max), run \in Runs(max),
                 version \in {<<"1">>, <<"1", ".", "0">>}}

\* The filenames: a basename with the suffix of a source distribution or
\* another suffix, and three wheels, of five, six and two parts.
Filenames(max) ==
    {basename \o suffix :
        basename \in Basenames(max),
        suffix \in {SdistSuffixes[i] : i \in 1..Len(SdistSuffixes)}
                       \cup {<<".", "e", "x", "e">>, <<".", "d", "m", "g">>,
                             <<".", "t", "x", "t">>}}
        \cup {<<"a", "-", "1", "-", "p", "y", "3", "-", "n", "o", "n", "e", "-", "a", "n", "y", ".", "w", "h", "l">>,
              <<"a", "-", "1", "-", "2", "-", "p", "y", "3", "-", "n", "o", "n", "e", "-", "a", "n", "y", ".", "w", "h", "l">>,
              <<"a", "-", "1", ".", "w", "h", "l">>}

InitFilenameToVersion ==
    /\ pc = "call"
    /\ fn \in {"filename_to_version", "pypi_types::filename_to_version"}
    /\ args \in {[package_name |-> package_name, filename |-> filename] :
                    package_name \in Projects(MaxRun),
                    filename \in Filenames(MaxRun)}
    /\ ret = NoReturn
    /\ warnings = <<>>

CallFilenameToVersion ==
    /\ pc = "call"
    /\ fn = "filename_to_version"
    /\ LET version == filename_to_version(args.package_name, args.filename)
       IN  /\ ret' = version.result
           /\ warnings' = version.warnings
    /\ pc' = "return"
    /\ UNCHANGED <<fn, args>>

CallPypiTypesFilenameToVersion ==
    /\ pc = "call"
    /\ fn = "pypi_types::filename_to_version"
    /\ LET version == pypi_types_filename_to_version(args.package_name, args.filename)
       IN  /\ ret' = version.result
           /\ warnings' = version.warnings
    /\ pc' = "return"
    /\ UNCHANGED <<fn, args>>

NextFilenameToVersion == CallFilenameToVersion \/ CallPypiTypesFilenameToVersion

SpecFilenameToVersion == InitFilenameToVersion /\ [][NextFilenameToVersion]_vars

\* filename_to_version of either crate has returned.
ReturnedFilenameToVersion ==
    Returned("filename_to_version") \/ Returned("pypi_types::filename_to_version")

\* The filename is the one of a source distribution.
is_sdist(filename) ==
    \E i \in 1..Len(SdistSuffixes) : ends_with(filename, SdistSuffixes[i])

\* The filename of a source distribution without its suffix.
basename_of(filename) ==
    LET i == CHOOSE i \in 1..Len(SdistSuffixes) : ends_with(filename, SdistSuffixes[i])
    IN  SubSeq(filename, 1, Len(filename) - Len(SdistSuffixes[i]))

\* The normalized basename starts with the normalized project name and a -
has_project_prefix(package_name, filename) ==
    starts_with(normalize(basename_of(filename)), normalize(package_name) \o <<"-">>)

\* C16: filename_to_version on the filename of a source distribution whose
\* normalized basename does not start with the normalized project name
\* followed by - returns no version, and no error.
C16_MismatchedSdistIsNoError ==
    (ReturnedFilenameToVersion
         /\ is_sdist(args.filename)
         /\ ~has_project_prefix(args.package_name, args.filename))
        => ret = Ok(None)

\* C17: filename_to_version on the filename of a source distribution whose
\* normalized basename starts with the normalized project name followed by -
\* returns the rest of the basename behind a part that normalizes to the
\* normalized project name followed by -, also when the name holds runs of
\* several - or _
C17_SdistVersionFollowsProjectPrefix ==
    (ReturnedFilenameToVersion
         /\ is_sdist(args.filename)
         /\ has_project_prefix(args.package_name, args.filename))
        => /\ ret.tag = "Ok"
           /\ ret.value # None
           /\ \E cut \in 0..Len(basename_of(args.filename)) :
                  /\ unwrap(ret.value)
                         = SubSeq(basename_of(args.filename), cut + 1,
                                  Len(basename_of(args.filename)))
                  /\ normalize(SubSeq(basename_of(args.filename), 1, cut))
                         = normalize(args.package_name) \o <<"-">>

(***************************************************************************)
(* helper.rs: collect_extras.  A Requirement is the record of its marker,  *)
(* an Option<MarkerTree>; a HashSet is the set of its elements.            *)
(***************************************************************************)
\* A match that only knows the extra on the left.
matched_extra_on_the_left(expression) ==
    IF /\ expression.l_value = Extra
       /\ expression.operator \in {"Equal", "NotEqual"}
       /\ expression.r_value.tag = "QuotedString"
    THEN Some(expression.r_value.value)
    ELSE None

\* The match of collect_extras_marker_tree on an expression: the extra it
\* binds, None in the arm that ignores the expression.
matched_extra(expression) ==
    CASE /\ expression.l_value = Extra
         /\ expression.operator \in {"Equal", "NotEqual"}
         /\ expression.r_value.tag = "QuotedString" ->
           Some(expression.r_value.value)
      [] /\ expression.l_value.tag = "QuotedString"
         /\ expression.operator \in {"Equal", "NotEqual"}
         /\ expression.r_value = Extra ->
           Some(expression.l_value.value)
      [] OTHER -> None

\* `mapping.insert(extra.to_string())` in the arm that binds an extra.
insert_matched(mapping, matched) ==
    IF matched = None THEN mapping ELSE mapping \cup {unwrap(matched)}

RECURSIVE collect_extras_marker_tree(_, _)

\* The loop over the children of an And or Or node, from the k-th child on.
RECURSIVE collect_extras_marker_trees(_, _, _)
collect_extras_marker_trees(marker_trees, k, mapping) ==
    IF k > Len(marker_trees) THEN mapping
    ELSE collect_extras_marker_trees(
             marker_trees, k + 1,
             collect_extras_marker_tree(marker_trees[k], mapping))

\* fn collect_extras_marker_tree: `mapping` after the call.
collect_extras_marker_tree(markers, mapping) ==
    IF markers.kind = "Expression"
    THEN insert_matched(mapping, matched_extra(markers.expr))
    ELSE collect_extras_marker_trees(markers.children, 1, mapping)

\* fn collect_extras
collect_extras(requirement) ==
    IF requirement.marker # None
    THEN collect_extras_marker_tree(unwrap(requirement.marker), {})
    ELSE {}

(***************************************************************************)
(* collect_extras, called on one requirement.                              *)
(***************************************************************************)
\* The atoms of the marker of the requirement: the extra compared with ==
\* and != on either side, two of them with the same quoted string, and
\* atoms the match ignores for their operator, for their key and for
\* comparing the extra with itself.
ExtraAtoms ==
    <<(* extra == "test" *)
      MarkerExpression(Extra, "Equal", QuotedString(<<"t", "e", "s", "t">>)),
      (* extra != "dev" *)
      MarkerExpression(Extra, "NotEqual", QuotedString(<<"d", "e", "v">>)),
      (* "doc" == extra *)
      MarkerExpression(QuotedString(<<"d", "o", "c">>), "Equal", Extra),
      (* "test" != extra *)
      MarkerExpression(QuotedString(<<"t", "e", "s", "t">>), "NotEqual", Extra),
      (* extra in "all" *)
      MarkerExpression(Extra, "In", QuotedString(<<"a", "l", "l">>)),
      (* "nt" == os_name *)
      MarkerExpression(QuotedString(<<"n", "t">>), "Equal", MarkerEnvString("OsName")),
      (* extra == extra *)
      MarkerExpression(Extra, "Equal", Extra)>>

\* The requirements: one without marker, and one for each tree at most two
\* nodes deep of at most `max` leaves.
Requirements(max) ==
    {[marker |-> None]}
        \cup {[marker |-> Some(with_atoms(shape, ExtraAtoms))] :
                 shape \in Depth2(Len(ExtraAtoms), max)}

InitCollectExtras ==
    /\ pc = "call"
    /\ fn = "collect_extras"
    /\ args \in {[requirement |-> requirement] :
                    requirement \in Requirements(MaxExtraLeaves)}
    /\ ret = NoReturn
    /\ warnings = <<>>

CallCollectExtras ==
    /\ pc = "call"
    /\ fn = "collect_extras"
    /\ ret' = collect_extras(args.requirement)
    /\ pc' = "return"
    /\ UNCHANGED <<fn, args, warnings>>

NextCollectExtras == CallCollectExtras

SpecCollectExtras == InitCollectExtras /\ [][NextCollectExtras]_vars

\* The atom compares the extra with a quoted string, on either side, with ==
\* or !=
is_extra_comparison(expr) ==
    /\ expr.operator \in {"Equal", "NotEqual"}
    /\ \/ expr.l_value = Extra /\ expr.r_value.tag = "QuotedString"
       \/ expr.l_value.tag = "QuotedString" /\ expr.r_value = Extra

\* The atoms of the marker of a requirement, none when it has no marker.
atoms_of_requirement(requirement) ==
    IF requirement.marker = None THEN {}
    ELSE atoms_of(unwrap(requirement.marker))

\* C18: collect_extras(requirement) returns exactly the set of the quoted
\* strings of the atoms of the marker tree, at any depth, that compare the
\* extra with a quoted string with == or !=, on either side; every other atom
\* adds nothing, and a requirement without marker gives the empty set.
C18_CollectExtrasOfExtraComparisons ==
    Returned("collect_extras")
        => /\ ret = {extra_value(expr) :
                        expr \in {expr \in atoms_of_requirement(args.requirement) :
                                     is_extra_comparison(expr)}}
           /\ args.requirement.marker = None => ret = {}

\* A tree two nodes deep with an extra on the left, an extra on the right
\* and an atom that is ignored has been collected.
C18_Witness ==
    /\ Returned("collect_extras")
    /\ args.requirement.marker # None
    /\ unwrap(args.requirement.marker).kind # "Expression"
    /\ \E i \in 1..Len(unwrap(args.requirement.marker).children) :
           unwrap(args.requirement.marker).children[i].kind # "Expression"
    /\ \E expr \in atoms_of_requirement(args.requirement) :
           is_extra_comparison(expr) /\ expr.l_value = Extra
    /\ \E expr \in atoms_of_requirement(args.requirement) :
           is_extra_comparison(expr) /\ expr.r_value = Extra
    /\ \E expr \in atoms_of_requirement(args.requirement) :
           ~is_extra_comparison(expr)
    /\ Cardinality(ret) = 2

(***************************************************************************)
(* core_metadata.rs: parse_requirement_with_fixup.  Requirement::from_str  *)
(* of pep508_rs is modelled on the requirements of the model: a name of    *)
(* lower-case letters and a list of version specifiers separated by        *)
(* commas, in parentheses or not.  A Requirement is the record of its name *)
(* and its specifiers, a Pep508Error the record of its message and of the  *)
(* input it was raised for.                                                *)
(***************************************************************************)
\* The spellings of pep440_rs's operators, a spelling before its prefixes.
OperatorSpellings ==
    <<[spelling |-> <<"=", "=", "=">>, operator |-> "ExactEqual"],
      [spelling |-> <<"=", "=">>, operator |-> "Equal"],
      [spelling |-> <<"~", "=">>, operator |-> "TildeEqual"],
      [spelling |-> <<"!", "=">>, operator |-> "NotEqual"],
      [spelling |-> <<"<", "=">>, operator |-> "LessThanEqual"],
      [spelling |-> <<">", "=">>, operator |-> "GreaterThanEqual"],
      [spelling |-> <<"<">>, operator |-> "LessThan"],
      [spelling |-> <<">">>, operator |-> "GreaterThan"]>>

\* The first spelling `s` starts with, None when it starts with none.
parse_operator(s) ==
    IF \E i \in 1..Len(OperatorSpellings) : starts_with(s, OperatorSpellings[i].spelling)
    THEN Some(OperatorSpellings[
                  CHOOSE i \in 1..Len(OperatorSpellings) :
                      /\ starts_with(s, OperatorSpellings[i].spelling)
                      /\ \A j \in 1..(i - 1) :
                             ~starts_with(s, OperatorSpellings[j].spelling)])
    ELSE None

\* str::trim, for spaces
RECURSIVE trim(_)
trim(s) ==
    IF s # <<>> /\ Head(s) = " " THEN trim(Tail(s))
    ELSE IF s # <<>> /\ s[Len(s)] = " " THEN trim(SubSeq(s, 1, Len(s) - 1))
    ELSE s

\* The specifier of an operator and of the parse of a version.
specifier_of_parsed(operator, parsed) ==
    IF parsed = None THEN None
    ELSE new_specifier(operator, unwrap(parsed)[1], unwrap(parsed)[2])

\* The specifier behind a spelling.
specifier_of_spelling(s, spelling) ==
    IF spelling = None THEN None
    ELSE specifier_of_parsed(
             unwrap(spelling).operator,
             from_str_star(trim(SubSeq(s, Len(unwrap(spelling).spelling) + 1, Len(s)))))

\* VersionSpecifier::from_str: Some(specifier), or None for Err.
version_specifier_from_str(s) == specifier_of_spelling(trim(s), parse_operator(trim(s)))

\* The specifiers of the pieces between the commas, None when one is none.
RECURSIVE specifiers_of_pieces(_)
specifiers_of_pieces(pieces) ==
    IF pieces = <<>> THEN Some(<<>>)
    ELSE IF version_specifier_from_str(Head(pieces)) = None
              \/ specifiers_of_pieces(Tail(pieces)) = None
    THEN None
    ELSE Some(<<unwrap(version_specifier_from_str(Head(pieces)))>>
                  \o unwrap(specifiers_of_pieces(Tail(pieces))))

\* VersionSpecifiers::from_str: Some(specifiers), or None for Err.
version_specifiers_from_str(s) == specifiers_of_pieces(split(s, ","))

\* The length of the name a requirement starts with.
RECURSIVE name_len(_)
name_len(s) ==
    IF s # <<>> /\ Byte("a") <= Byte(Head(s)) /\ Byte(Head(s)) <= Byte("z")
    THEN 1 + name_len(Tail(s))
    ELSE 0

Pep508Error(message, input) == [message |-> message, input |-> input]

\* The requirement of a name and of the parse of its specifiers.
requirement_of(name, specifiers, input) ==
    IF specifiers = None
    THEN Err(Pep508Error("invalid version specifiers", input))
    ELSE Ok([name |-> name, version_or_url |-> unwrap(specifiers), marker |-> None])

\* The requirement of a name and of what follows it.
requirement_of_rest(name, rest, input) ==
    IF name = <<>> THEN Err(Pep508Error("expected package name", input))
    ELSE IF rest = <<>> THEN requirement_of(name, Some(<<>>), input)
    ELSE IF Head(rest) = "(" /\ rest[Len(rest)] # ")"
    THEN Err(Pep508Error("missing closing parenthesis", input))
    ELSE IF Head(rest) = "("
    THEN requirement_of(name, version_specifiers_from_str(SubSeq(rest, 2, Len(rest) - 1)),
                        input)
    ELSE requirement_of(name, version_specifiers_from_str(rest), input)

\* Requirement::from_str
requirement_from_str(s) ==
    requirement_of_rest(SubSeq(s, 1, name_len(s)),
                        trim(SubSeq(s, name_len(s) + 1, Len(s))), s)

\* The character class [<>=~^!] of REQUIREMENT_FIXUP_REGEX.
FixupOperatorClass == {"<", ">", "=", "~", "^", "!"}

\* The position of the digit of the first match of REQUIREMENT_FIXUP_REGEX,
\* (\d)([<>=~^!]), 0 when there is none.
fixup_find(s) ==
    IF \E i \in 1..(Len(s) - 1) : s[i] \in Digits /\ s[i + 1] \in FixupOperatorClass
    THEN CHOOSE i \in 1..(Len(s) - 1) :
             /\ s[i] \in Digits /\ s[i + 1] \in FixupOperatorClass
             /\ \A j \in 1..(i - 1) :
                    ~(s[j] \in Digits /\ s[j + 1] \in FixupOperatorClass)
    ELSE 0

\* REQUIREMENT_FIXUP_REGEX.replace(requirement_str, "$1,$2"): a comma goes
\* into the first match, and only into the first.
fixup_replace(requirement_str) ==
    IF fixup_find(requirement_str) = 0 THEN requirement_str
    ELSE SubSeq(requirement_str, 1, fixup_find(requirement_str))
             \o <<",">>
             \o SubSeq(requirement_str, fixup_find(requirement_str) + 1,
                       Len(requirement_str))

\* A fix-up that raises the error of the patched string.
with_fixup_patched_error(result, patched_result, debug_str) ==
    IF result.tag = "Ok" THEN Reported(result, <<>>)
    ELSE IF patched_result.tag = "Ok"
    THEN Reported(patched_result,
                  <<Warn(IF debug_str # None
                         THEN "Requirement {} from {} is invalid (missing comma). Using workaround."
                         ELSE "Requirement {} is invalid (missing comma). Using workaround.")>>)
    ELSE Reported(patched_result, <<>>)

\* parse_requirement_with_fixup from the two parses on: `result` of the
\* string and `patched_result` of the patched string.
with_fixup(result, patched_result, debug_str) ==
    IF result.tag = "Ok" THEN Reported(result, <<>>)
    ELSE IF patched_result.tag = "Ok"
    THEN Reported(patched_result,
                  <<Warn(IF debug_str # None
                         THEN "Requirement {} from {} is invalid (missing comma). Using workaround."
                         ELSE "Requirement {} is invalid (missing comma). Using workaround.")>>)
    ELSE Reported(result, <<>>)

\* fn parse_requirement_with_fixup
parse_requirement_with_fixup(requirement_str, debug_str) ==
    with_fixup(requirement_from_str(requirement_str),
               requirement_from_str(fixup_replace(requirement_str)),
               debug_str)

(***************************************************************************)
(* parse_requirement_with_fixup, called on one requirement string.         *)
(***************************************************************************)
\* The specifiers of the requirement strings, one of them invalid.
SpecifierTexts ==
    {<<">", "=", "1">>, <<"<", "2">>,
     <<"=", "=", "1", ".", "0">>, <<"!", "=", "3">>,
     <<">", "=", "x">>}

\* The lists of n specifiers, each with a comma before it or without.
RECURSIVE SpecifierLists(_)
SpecifierLists(n) ==
    IF n = 0 THEN {<<>>}
    ELSE IF n = 1 THEN SpecifierTexts
    ELSE {list \o comma \o specifier :
             list \in SpecifierLists(n - 1),
             comma \in {<<>>, <<",">>},
             specifier \in SpecifierTexts}

\* The requirement strings: the name pkg and at most `max` specifiers, in
\* parentheses or not.
RequirementStrings(max) ==
    UNION {{<<"p", "k", "g">> \o list, <<"p", "k", "g">> \o <<" ", "(">> \o list \o <<")">>} :
              list \in UNION {SpecifierLists(n) : n \in 0..max}}

InitParseRequirement ==
    /\ pc = "call"
    /\ fn = "parse_requirement_with_fixup"
    /\ args \in {[requirement_str |-> requirement_str, debug_str |-> debug_str] :
                    requirement_str \in RequirementStrings(MaxFixupSpecifiers),
                    debug_str \in {None, Some(<<"M", "E", "T", "A", "D", "A", "T", "A">>)}}
    /\ ret = NoReturn
    /\ warnings = <<>>

CallParseRequirementWithFixup ==
    /\ pc = "call"
    /\ fn = "parse_requirement_with_fixup"
    /\ LET parsed == parse_requirement_with_fixup(args.requirement_str, args.debug_str)
       IN  /\ ret' = parsed.result
           /\ warnings' = parsed.warnings
    /\ pc' = "return"
    /\ UNCHANGED <<fn, args>>

NextParseRequirement == CallParseRequirementWithFixup

SpecParseRequirement == InitParseRequirement /\ [][NextParseRequirement]_vars

\* C19: parse_requirement_with_fixup returns the requirement of the original
\* string when it parses, and then nothing tells of a fix-up; when it does
\* not parse and the comma-patched string does, the requirement of the
\* patched string; and when neither parses, the error of the original
\* string.
C19_FixupKeepsOriginalError ==
    Returned("parse_requirement_with_fixup")
        => LET original == requirement_from_str(args.requirement_str)
               patched == requirement_from_str(fixup_replace(args.requirement_str))
           IN  /\ original.tag = "Ok" => ret = original /\ warnings = <<>>
               /\ (original.tag = "Err" /\ patched.tag = "Ok")
                      => ret = patched /\ Len(warnings) = 1
               /\ (original.tag = "Err" /\ patched.tag = "Err")
                      => /\ ret = original
                         /\ ret.error.input = args.requirement_str

\* Neither the string nor the patched string, which differs from it, was
\* parsed, and the error returned is the one of the string.
C19_Witness ==
    /\ Returned("parse_requirement_with_fixup")
    /\ fixup_replace(args.requirement_str) # args.requirement_str
    /\ requirement_from_str(fixup_replace(args.requirement_str)).tag = "Err"
    /\ ret.tag = "Err"
    /\ ret.error.input = args.requirement_str

(***************************************************************************)
(* invert_and_normalize_version_operator, called on the operator of an     *)
(* atom and the version of its quoted string.  normalize_marker_expression *)
(* calls it with a version without epoch and without local segment.        *)
(***************************************************************************)
InitInvert ==
    /\ pc = "call"
    /\ fn = "invert_and_normalize_version_operator"
    /\ args \in {[operator |-> operator, l_version |-> l_version] :
                    operator \in MarkerOperators, l_version \in SpecifierVersions}
    /\ ret = NoReturn
    /\ warnings = <<>>

CallInvertAndNormalizeVersionOperator ==
    /\ pc = "call"
    /\ fn = "invert_and_normalize_version_operator"
    /\ ret' = invert_and_normalize_version_operator(args.operator, args.l_version)
    /\ pc' = "return"
    /\ UNCHANGED <<fn, args, warnings>>

NextInvert == CallInvertAndNormalizeVersionOperator

SpecInvert == InitInvert /\ [][NextInvert]_vars

is_marker(value) == value.tag \in {"MarkerEnvVersion", "MarkerEnvString", "Extra"}

kinds_of(reported) == [i \in 1..Len(reported) |-> reported[i].kind]

\* C22: for a string key on the left and a quoted string on the right, <,
\* <=, > and >= report one LexicographicComparison warning and return the
\* string-key form with that operator, ~= reports one LexicographicComparison
\* warning and returns None, and ==, !=, in and not in return the form with
\* no warning.
C22_StringKeyLeftOperators ==
    (Returned("normalize_marker_expression")
         /\ args.marker.l_value.tag = "MarkerEnvString"
         /\ args.marker.r_value.tag = "QuotedString")
        => LET operator == args.marker.operator
               form == Some([type |-> "MarkerEnvString",
                             marker_value |->
                                 [side |-> "MarkerLeftValueRight",
                                  left |-> args.marker.l_value.key,
                                  right |-> args.marker.r_value.value],
                             operator |-> operator])
           IN  /\ operator \in {"LessThan", "LessEqual", "GreaterThan", "GreaterEqual"}
                      => /\ kinds_of(warnings) = <<"LexicographicComparison">>
                         /\ ret = form
               /\ operator = "TildeEqual"
                      => /\ kinds_of(warnings) = <<"LexicographicComparison">>
                         /\ ret = None
               /\ operator \in {"Equal", "NotEqual", "In", "NotIn"}
                      => /\ warnings = <<>>
                         /\ ret = form

\* `os_name < "nt"` was normalized with a warning.
C22_Witness ==
    /\ Returned("normalize_marker_expression")
    /\ args.marker = MarkerExpression(MarkerEnvString("OsName"), "LessThan",
                                      QuotedString(<<"n", "t">>))
    /\ ret # None
    /\ unwrap(ret).operator = "LessThan"
    /\ Len(warnings) = 1

C24_BothMarkersOrBothStrings ==
    Returned("normalize_marker_expression")
        => /\ (is_marker(args.marker.l_value) /\ is_marker(args.marker.r_value))
                  => /\ kinds_of(warnings) = <<"MarkerMarkerComparison">>
                     /\ ret = None
           /\ (~is_marker(args.marker.l_value) /\ ~is_marker(args.marker.r_value))
                  => /\ kinds_of(warnings) = <<"StringStringComparison">>
                     /\ ret = None

\* C24, with the kind the left operand decides: an atom with a marker on
\* both sides gives None and is reported once, as MarkerMarkerComparison
\* when the left marker is a string key, as Pep440Error when it is a version
\* key and as ExtraInvalidComparison when it is extra; an atom with a quoted
\* string on both sides is reported as StringStringComparison and gives
\* None.
C24_KindByLeftOperand ==
    Returned("normalize_marker_expression")
        => /\ (is_marker(args.marker.l_value) /\ is_marker(args.marker.r_value))
                  => /\ ret = None
                     /\ kinds_of(warnings) =
                            CASE args.marker.l_value.tag = "MarkerEnvString" ->
                                   <<"MarkerMarkerComparison">>
                              [] args.marker.l_value.tag = "MarkerEnvVersion" ->
                                   <<"Pep440Error">>
                              [] args.marker.l_value.tag = "Extra" ->
                                   <<"ExtraInvalidComparison">>
           /\ (~is_marker(args.marker.l_value) /\ ~is_marker(args.marker.r_value))
                  => /\ kinds_of(warnings) = <<"StringStringComparison">>
                     /\ ret = None

\* `os_name == python_version` was reported as a comparison of two markers.
C24_Witness ==
    /\ Returned("normalize_marker_expression")
    /\ args.marker = MarkerExpression(MarkerEnvString("OsName"), "Equal",
                                      MarkerEnvVersion("PythonVersion"))
    /\ ret = None
    /\ kinds_of(warnings) = <<"MarkerMarkerComparison">>

(***************************************************************************)
(* The order of the DNF marker_dnf_as_vec returns.                         *)
(***************************************************************************)
\* The atoms of a clause are in ascending order of their display string.
atoms_ascending(clause) ==
    \A j \in 1..(Len(clause) - 1) :
        str_cmp(to_string(clause[j]), to_string(clause[j + 1])) = Less

\* The clauses of a DNF are in ascending order of (number of atoms, debug
\* form).
clauses_ascending(dnf) ==
    \A i \in 1..(Len(dnf) - 1) :
        len_and_debug_cmp(<<Len(dnf[i]), vec_debug(dnf[i])>>,
                          <<Len(dnf[i + 1]), vec_debug(dnf[i + 1])>>) = Less

\* C25: in the DNF marker_dnf_as_vec returns, the atoms of every conjunction
\* are in ascending order of their display string and the conjunctions are in
\* ascending order of (number of atoms, debug form).
C25_DnfIsOrdered ==
    Returned("marker_dnf_as_vec")
        => /\ \A i \in 1..Len(ret) : atoms_ascending(ret[i])
           /\ clauses_ascending(ret)

\* `(python_version >= "3.1" and os_name == "nt") or os_name == "posix"`
\* became the one-atom conjunction followed by the two-atom conjunction, the
\* atoms of the latter exchanged.
C25_Witness ==
    /\ Returned("marker_dnf_as_vec")
    /\ args.marker = Or(<<And(<<Expression(DnfAtoms[3]), Expression(DnfAtoms[2])>>),
                          Expression(DnfAtoms[1])>>)
    /\ ret = <<<<DnfAtoms[1]>>, <<DnfAtoms[2], DnfAtoms[3]>>>>

(***************************************************************************)
(* marker_dnf_as_vec, called on a tree with atoms that normalization       *)
(* reports.                                                                *)
(***************************************************************************)
\* The atoms of the trees: two atoms without warning, an atom that is
\* reported and has no canonical form, and an atom that is reported and has
\* one.
ReportedAtoms ==
    <<(* os_name == "posix" *)
      MarkerExpression(MarkerEnvString("OsName"),
                       "Equal",
                       QuotedString(<<"p", "o", "s", "i", "x">>)),
      (* os_name == "nt" *)
      MarkerExpression(MarkerEnvString("OsName"),
                       "Equal",
                       QuotedString(<<"n", "t">>)),
      (* python_version in "3.1" *)
      MarkerExpression(MarkerEnvVersion("PythonVersion"),
                       "In",
                       QuotedString(<<"3", ".", "1">>)),
      (* os_name < "nt" *)
      MarkerExpression(MarkerEnvString("OsName"),
                       "LessThan",
                       QuotedString(<<"n", "t">>))>>

\* The trees at most two nodes deep of at most `max` leaves.
ReportedTrees(max) ==
    {with_atoms(shape, ReportedAtoms) : shape \in Depth2(Len(ReportedAtoms), max)}

InitDnfWarnings ==
    /\ pc = "call"
    /\ fn = "marker_dnf_as_vec"
    /\ args \in {[marker |-> marker] : marker \in ReportedTrees(MaxLeaves)}
    /\ ret = NoReturn
    /\ warnings = <<>>

SpecDnfWarnings == InitDnfWarnings /\ [][NextDnf]_vars

\* The warnings normalization reports for an atom.
warnings_of(expr) ==
    LET reported == normalize_marker_expression(expr).warnings
    IN  {reported[i] : i \in 1..Len(reported)}

\* The warnings collected during the call.
collected == {warnings[i] : i \in 1..Len(warnings)}

contradictory(marker) == marker_dnf_as_vec(marker).result = <<>>

\* C27: is_disjoint_marker_tree gives the same result with its arguments
\* exchanged, also when one of the two trees is contradictory by itself.
C27_DisjointMarkersSymmetric ==
    Returned("is_disjoint_marker_tree")
        => ret = is_disjoint_marker_tree(args.right, args.left).result

\* The same for two trees none of which is contradictory by itself.
DisjointSatisfiableMarkersSymmetric ==
    (Returned("is_disjoint_marker_tree")
         /\ ~contradictory(args.left) /\ ~contradictory(args.right))
        => ret = is_disjoint_marker_tree(args.right, args.left).result

(***************************************************************************)
(* VersionRange::intersect and VersionRange::is_disjoint, called on two    *)
(* ranges.                                                                 *)
(***************************************************************************)
\* The versions of the ends: 3, and 3.0 .. 3.MaxRangeMinor with their first
\* alpha.  3 and 3.0 are equal versions.
RangeVersions ==
    {MkVersion(<<3>>, 0)}
        \cup {MkVersion(<<3, minor>>, pre) : minor \in 0..MaxRangeMinor, pre \in 0..1}

\* A range without a version: its lower end is above its upper end, or they
\* are equal and one of them is exclusive.
range_is_empty(range) ==
    /\ range.min # None
    /\ range.max # None
    /\ \/ version_cmp(unwrap(range.min), unwrap(range.max)) = Greater
       \/ /\ version_cmp(unwrap(range.min), unwrap(range.max)) = Equal
          /\ ~(range.min_inclusive /\ range.max_inclusive)

\* The ranges that are not empty, an absent end with either flag.
Ranges ==
    {range \in {VersionRange(min, min_inclusive, max, max_inclusive) :
                    min \in {None} \cup {Some(v) : v \in RangeVersions},
                    min_inclusive \in BOOLEAN,
                    max \in {None} \cup {Some(v) : v \in RangeVersions},
                    max_inclusive \in BOOLEAN} :
        ~range_is_empty(range)}

InitRangePairs ==
    /\ pc = "call"
    /\ fn \in {"VersionRange::intersect", "VersionRange::is_disjoint"}
    /\ args \in {[self |-> self, other |-> other] : self \in Ranges, other \in Ranges}
    /\ ret = NoReturn
    /\ warnings = <<>>

CallIntersect ==
    /\ pc = "call"
    /\ fn = "VersionRange::intersect"
    /\ ret' = intersect(args.self, args.other)
    /\ pc' = "return"
    /\ UNCHANGED <<fn, args, warnings>>

CallIsDisjoint ==
    /\ pc = "call"
    /\ fn = "VersionRange::is_disjoint"
    /\ ret' = is_disjoint(args.self, args.other)
    /\ pc' = "return"
    /\ UNCHANGED <<fn, args, warnings>>

NextRangePairs == CallIntersect \/ CallIsDisjoint

SpecRangePairs == InitRangePairs /\ [][NextRangePairs]_vars

\* PartialEq of VersionRange: the ends are compared as versions.
range_eq(a, b) ==
    /\ option_version_eq(a.min, b.min)
    /\ a.min_inclusive = b.min_inclusive
    /\ option_version_eq(a.max, b.max)
    /\ a.max_inclusive = b.max_inclusive

\* `range` is what the claim says the intersection of a and b is: the larger
\* lower end and the smaller upper end, on a tie with the flags of both.
larger_lower_smaller_upper(range, a, b) ==
    /\ \/ /\ option_version_cmp(a.min, b.min) = Greater
          /\ option_version_eq(range.min, a.min)
          /\ range.min_inclusive = a.min_inclusive
       \/ /\ option_version_cmp(a.min, b.min) = Less
          /\ option_version_eq(range.min, b.min)
          /\ range.min_inclusive = b.min_inclusive
       \/ /\ option_version_cmp(a.min, b.min) = Equal
          /\ option_version_eq(range.min, a.min)
          /\ range.min_inclusive = (a.min_inclusive /\ b.min_inclusive)
    /\ \/ /\ a.max # None
          /\ b.max = None \/ option_version_cmp(a.max, b.max) = Less
          /\ option_version_eq(range.max, a.max)
          /\ range.max_inclusive = a.max_inclusive
       \/ /\ b.max # None
          /\ a.max = None \/ option_version_cmp(a.max, b.max) = Greater
          /\ option_version_eq(range.max, b.max)
          /\ range.max_inclusive = b.max_inclusive
       \/ /\ a.max # None /\ b.max # None
          /\ option_version_cmp(a.max, b.max) = Equal
          /\ option_version_eq(range.max, a.max)
          /\ range.max_inclusive = (a.max_inclusive /\ b.max_inclusive)
       \/ /\ a.max = None /\ b.max = None
          /\ range.max = None

\* C28: for two ranges that are not empty, is_disjoint is true exactly when
\* their intersection is empty (its lower end above its upper end, or the two
\* equal and one of them exclusive), the intersection having the larger lower
\* end and the smaller upper end, the flags of both on a tie; and both
\* operations give the same with their arguments exchanged.
C28_DisjointIffIntersectionEmpty ==
    /\ Returned("VersionRange::is_disjoint")
           => /\ ret = range_is_empty(intersect(args.self, args.other))
              /\ ret = is_disjoint(args.other, args.self)
    /\ Returned("VersionRange::intersect")
           => /\ larger_lower_smaller_upper(ret, args.self, args.other)
              /\ range_eq(ret, intersect(args.other, args.self))
              /\ range_is_empty(ret) = is_disjoint(args.self, args.other)

\* Two ranges that touch in an end both include were found to overlap.
C28_Witness ==
    /\ Returned("VersionRange::is_disjoint")
    /\ args.self.max # None
    /\ option_version_eq(args.self.max, args.other.min)
    /\ args.self.max_inclusive /\ args.other.min_inclusive
    /\ ret = FALSE

\* The ranges that differ from `range` at most in the flag of an absent end.
with_any_absent_flag(range) ==
    {VersionRange(range.min, min_inclusive, range.max, max_inclusive) :
        min_inclusive \in IF range.min = None THEN BOOLEAN ELSE {range.min_inclusive},
        max_inclusive \in IF range.max = None THEN BOOLEAN ELSE {range.max_inclusive}}

\* Two ranges have the same ends and the same flags of the ends they have.
same_present_ends(a, b) ==
    /\ a.min = b.min
    /\ a.max = b.max
    /\ a.min # None => a.min_inclusive = b.min_inclusive
    /\ a.max # None => a.max_inclusive = b.max_inclusive

\* C29: the flag of an absent end is irrelevant: changing min_inclusive of a
\* range without min, or max_inclusive of a range without max, changes
\* neither the result of is_disjoint nor the ends, and the flags of the ends
\* present, of the result of intersect.
C29_AbsentEndFlagIrrelevant ==
    /\ Returned("VersionRange::is_disjoint")
           => \A self \in with_any_absent_flag(args.self),
                 other \in with_any_absent_flag(args.other) :
                  is_disjoint(self, other) = ret
    /\ Returned("VersionRange::intersect")
           => \A self \in with_any_absent_flag(args.self),
                 other \in with_any_absent_flag(args.other) :
                  same_present_ends(intersect(self, other), ret)

\* A range without upper end and with its flag off was intersected with a
\* range that has one, whose end and flag the result took.
C29_Witness ==
    /\ Returned("VersionRange::intersect")
    /\ args.self.max = None
    /\ ~args.self.max_inclusive
    /\ args.other.max # None
    /\ args.other.max_inclusive
    /\ ret.max = args.other.max
    /\ ret.max_inclusive

(***************************************************************************)
(* marker_dnf_as_vec followed by into_marker_tree, as the tests' `dnf`     *)
(* calls them.                                                             *)
(***************************************************************************)
InitDnfRoundTrip ==
    /\ pc = "call"
    /\ fn = "marker_dnf_as_vec"
    /\ args \in {[marker |-> marker] :
                    marker \in DnfTrees(MaxLeaves) \cup CopiesTrees(MaxCopies)
                                   \cup ReportedTrees(MaxLeaves)}
    /\ ret = NoReturn
    /\ warnings = <<>>

\* into_marker_tree, called on the DNF marker_dnf_as_vec has returned.
CallIntoMarkerTree ==
    /\ pc = "return"
    /\ fn = "marker_dnf_as_vec"
    /\ fn' = "MarkerTreeDnf::into_marker_tree"
    /\ args' = [self |-> ret]
    /\ ret' = into_marker_tree(ret)
    /\ UNCHANGED <<pc, warnings>>

NextDnfRoundTrip == CallMarkerDnfAsVec \/ CallIntoMarkerTree

SpecDnfRoundTrip == InitDnfRoundTrip /\ [][NextDnfRoundTrip]_vars

C30_EmptyDnfReconstructed ==
    /\ Returned("MarkerTreeDnf::into_marker_tree")
    /\ args.self = <<>>
    /\ ret = Or(<<>>)

====
